---- MODULE Spec2Model ----
(***************************************************************************)
(* Nepal Entity Service: the entity / relationship directory.              *)
(*                                                                         *)
(* The model follows app/api/v1/endpoints/{entities,relationships}.py, the *)
(* pydantic schemas of app/schemas and the SQLAlchemy models of app/models.*)
(* The store is the PostgreSQL database the models are written for (JSONB, *)
(* postgresql UUID, GIN index): READ COMMITTED, every statement sees the   *)
(* rows committed when it runs, a handler's writes are flushed and         *)
(* committed together by its single db.commit().                           *)
(***************************************************************************)
EXTENDS Integers, Sequences, FiniteSets, TLC

(***************************************************************************)
(* Bounds of the model.                                                    *)
(***************************************************************************)
MaxEntities == 2
MaxRelationships == 2
MaxClock == 2

\* The worker threads / processes that serve requests concurrently.
Workers == {"w1", "w2"}

(***************************************************************************)
(* Strings.  A string is a sequence of tokens (toks) followed by pad plain *)
(* characters that need no escaping; a token is one markup tag or one run  *)
(* of text.  Name strings use one token per character.                     *)
(***************************************************************************)
Str(toks, pad) == [toks |-> toks, pad |-> pad]
EmptyStr == Str(<<>>, 0)

\* Optional[str]: None or a string.
NullStr == [some |-> FALSE, v |-> EmptyStr]
SomeStr(s) == [some |-> TRUE, v |-> s]

TagTokens == {"<script>", "</script>", "<b>", "</b>"}
IsTag(tok) == tok \in TagTokens

\* Number of characters of a token.
TokLen(tok) ==
    CASE tok = "<script>" -> 8
      [] tok = "</script>" -> 9
      [] tok = "<b>" -> 3
      [] tok = "</b>" -> 4
      [] tok = "alert(1)" -> 8
      [] tok = "Hello" -> 5
      [] tok = "&amp;" -> 5
      [] OTHER -> 1

RECURSIVE ToksLen(_)
ToksLen(ts) == IF ts = <<>> THEN 0 ELSE TokLen(Head(ts)) + ToksLen(Tail(ts))

\* len(s)
StrLen(s) == ToksLen(s.toks) + s.pad

\* Python truthiness of an Optional[str]: "if v:" is false for None and "".
Truthy(o) == o.some /\ StrLen(o.v) > 0

(***************************************************************************)
(* bleach.clean(v, tags=[], strip=True): with no tag allowed and strip on, *)
(* every start and end tag is dropped and every character token is kept,   *)
(* serialized with & escaped.  The text between <script> and </script> is  *)
(* character data like any other and is kept.                              *)
(***************************************************************************)
EscapeTok(tok) == IF tok = "&" THEN "&amp;" ELSE tok

RECURSIVE CleanToks(_)
CleanToks(ts) ==
    IF ts = <<>> THEN <<>>
    ELSE (IF IsTag(Head(ts)) THEN <<>> ELSE <<EscapeTok(Head(ts))>>)
         \o CleanToks(Tail(ts))

bleach_clean(s) == Str(CleanToks(s.toks), s.pad)

\* EntityBase.sanitize_description / EntityUpdate.sanitize_description
sanitize_description(v) == IF Truthy(v) THEN SomeStr(bleach_clean(v.v)) ELSE v

(***************************************************************************)
(* JSON metadata.  A mapping is a sequence of nodes with distinct keys k;  *)
(* a node is a string, a number, a list (kids without keys) or a mapping   *)
(* (kids with keys).                                                       *)
(***************************************************************************)
JStr(k, s) == [k |-> k, t |-> "str", s |-> s, n |-> 0, kids |-> <<>>]
JNum(k, n) == [k |-> k, t |-> "num", s |-> EmptyStr, n |-> n, kids |-> <<>>]
JList(k, kids) == [k |-> k, t |-> "list", s |-> EmptyStr, n |-> 0, kids |-> kids]
JDict(k, kids) == [k |-> k, t |-> "dict", s |-> EmptyStr, n |-> 0, kids |-> kids]

\* Optional[Dict[str, Any]]: None or a mapping.
NullMeta == [some |-> FALSE, v |-> <<>>]
SomeMeta(nodes) == [some |-> TRUE, v |-> nodes]
EmptyMeta == SomeMeta(<<>>)

\* EntityBase.sanitize_metadata / EntityUpdate.sanitize_metadata: "if v:" is
\* false for None and for {}; only the values of the mapping itself that
\* are strings are cleaned, every other value is kept as it is.
sanitize_metadata(v) ==
    IF v.some /\ Len(v.v) > 0
    THEN SomeMeta([i \in DOMAIN v.v |->
                     IF v.v[i].t = "str"
                     THEN [v.v[i] EXCEPT !.s = bleach_clean(@)]
                     ELSE v.v[i]])
    ELSE v

(***************************************************************************)
(* Schemas (app/schemas/entity.py).  A request body is a record holding    *)
(* the set of fields the caller supplied (set) and their values; a field   *)
(* that is not supplied holds a placeholder that is never read.            *)
(***************************************************************************)
EntityTypes == {"person", "organization", "government", "political_party", "other"}

\* An entity_type supplied as an explicit JSON null.
NullType == "<null>"

NameMaxLen == 255
DescriptionMaxLen == 5000

EntityBody(set, name, name_nepali, entity_type, description, metadata) ==
    [set |-> set, name |-> name, name_nepali |-> name_nepali,
     entity_type |-> entity_type, description |-> description,
     metadata |-> metadata]

\* EntityCreate (EntityBase): name and entity_type are required and not
\* null, the length bounds are checked on the value supplied, before the
\* field validators run.
EntityCreateValid(b) ==
    /\ "name" \in b.set /\ b.name.some
    /\ StrLen(b.name.v) >= 1 /\ StrLen(b.name.v) <= NameMaxLen
    /\ ("name_nepali" \in b.set /\ b.name_nepali.some)
          => StrLen(b.name_nepali.v) <= NameMaxLen
    /\ "entity_type" \in b.set /\ b.entity_type \in EntityTypes
    /\ ("description" \in b.set /\ b.description.some)
          => StrLen(b.description.v) <= DescriptionMaxLen

\* EntityUpdate: every field is Optional with default None, so an explicit
\* null passes validation for every field.
EntityUpdateValid(b) ==
    /\ ("name" \in b.set /\ b.name.some)
          => (StrLen(b.name.v) >= 1 /\ StrLen(b.name.v) <= NameMaxLen)
    /\ ("name_nepali" \in b.set /\ b.name_nepali.some)
          => StrLen(b.name_nepali.v) <= NameMaxLen
    /\ "entity_type" \in b.set
          => b.entity_type \in EntityTypes \cup {NullType}
    /\ ("description" \in b.set /\ b.description.some)
          => StrLen(b.description.v) <= DescriptionMaxLen

\* entity.model_dump() of a validated EntityCreate: every field, the
\* defaults for the ones not supplied (metadata: default_factory=dict),
\* description and metadata as their validators returned them.
EntityCreateDump(b) ==
    [name |-> b.name,
     name_nepali |-> IF "name_nepali" \in b.set THEN b.name_nepali ELSE NullStr,
     entity_type |-> b.entity_type,
     description |-> IF "description" \in b.set
                     THEN sanitize_description(b.description) ELSE NullStr,
     meta_data |-> IF "metadata" \in b.set
                   THEN sanitize_metadata(b.metadata) ELSE EmptyMeta]

\* (mutant) a dump of every field, supplied or not.
UpdateColumns_all(b) ==
    {"name", "name_nepali", "entity_type", "description", "meta_data"}

\* The fields of EntityBase / EntityUpdate.  The schemas declare no other
\* field and no "extra" setting, so any other key of a body is ignored.
EntityFields == {"name", "name_nepali", "entity_type", "description", "metadata"}

\* entity_update.model_dump(exclude_unset=True), 'metadata' renamed to
\* 'meta_data': the value update_entity assigns to column f.
UpdateColumns(b) ==
    {IF f = "metadata" THEN "meta_data" ELSE f : f \in b.set \cap EntityFields}

UpdateValue(b, col) ==
    CASE col = "name" -> b.name
      [] col = "name_nepali" -> b.name_nepali
      [] col = "entity_type" ->
            [some |-> b.entity_type # NullType, v |-> b.entity_type]
      [] col = "description" -> sanitize_description(b.description)
      [] col = "meta_data" -> sanitize_metadata(b.metadata)

(***************************************************************************)
(* Tables (app/models/entity.py, app/models/relationship.py).              *)
(***************************************************************************)
\* updated_at of a row that was never updated (SQL NULL).
NullTime == 0

DefaultVersion == "1.0"

\* The value of column col of an entities row, as the ORM attribute holds it.
ColumnValue(row, col) ==
    CASE col = "name" -> row.name
      [] col = "name_nepali" -> row.name_nepali
      [] col = "entity_type" -> [some |-> TRUE, v |-> row.entity_type]
      [] col = "description" -> row.description
      [] col = "meta_data" -> row.meta_data

\* Entity(**entity_data) as INSERTed: id from uuid4, created_at from the
\* server default now(), updated_at NULL, version from the column default.
\* meta_data is always passed to the constructor, so its column default is
\* never used.
NewEntityRow(id, data, now) ==
    [id |-> id, name |-> data.name, name_nepali |-> data.name_nepali,
     entity_type |-> data.entity_type, description |-> data.description,
     meta_data |-> data.meta_data, created_at |-> now,
     updated_at |-> NullTime, version |-> DefaultVersion]

VARIABLES
    entities,        \* table entities: id -> committed row
    relationships,   \* table relationships: id -> committed row
    clock,           \* the database's now()
    entitySeq,       \* number of entity ids generated so far
    relSeq,          \* number of relationship ids generated so far
    op,              \* per worker: the handler it runs (or ran last)
    pc,              \* per worker: where in the handler it is
    arg,             \* per worker: the request's parameters and body
    loaded,          \* per worker: the ORM object loaded by its SELECT
    status,          \* per worker: HTTP status of the finished request
    resp,            \* per worker: rows of the response body
    detail,          \* per worker: what the error of the request names
    fetch            \* the import script's fetch_all_entities call

vars == <<entities, relationships, clock, entitySeq, relSeq,
          op, pc, arg, loaded, status, resp, detail, fetch>>
db == <<entities, relationships, entitySeq, relSeq>>

NoArg == [id |-> 0]

\* The detail of a response that is not an error of a missing record.
NoDetail == [kind |-> "", id |-> 0]

\* fetch_all_entities before it is called: where the call is (pc), its
\* max_entities, the number of items in all_entities, offset, the number of
\* page requests made, the length of the last page received and the number
\* of items returned.
NoFetch ==
    [pc |-> "idle", max_entities |-> 0, all_entities |-> 0, offset |-> 0,
     requests |-> 0, page |-> 0, returned |-> 0]

Init ==
    /\ entities = [k \in {} |-> NoArg]
    /\ relationships = [k \in {} |-> NoArg]
    /\ clock = 1
    /\ entitySeq = 0
    /\ relSeq = 0
    /\ op = [w \in Workers |-> "idle"]
    /\ pc = [w \in Workers |-> "idle"]
    /\ arg = [w \in Workers |-> NoArg]
    /\ loaded = [w \in Workers |-> <<>>]
    /\ status = [w \in Workers |-> 0]
    /\ resp = [w \in Workers |-> <<>>]
    /\ detail = [w \in Workers |-> NoDetail]
    /\ fetch = NoFetch

Free(w) == pc[w] \in {"idle", "done"}

\* Worker w takes request o with parameters a and reaches label l.
Goto(w, o, a, l, ld) ==
    /\ op' = [op EXCEPT ![w] = o]
    /\ arg' = [arg EXCEPT ![w] = a]
    /\ pc' = [pc EXCEPT ![w] = l]
    /\ loaded' = [loaded EXCEPT ![w] = ld]
    /\ status' = [status EXCEPT ![w] = 0]
    /\ resp' = [resp EXCEPT ![w] = <<>>]
    /\ detail' = [detail EXCEPT ![w] = NoDetail]
    /\ UNCHANGED fetch

\* Worker w ends request o with status st, body r and error detail d.
Reply(w, o, a, st, r, d) ==
    /\ op' = [op EXCEPT ![w] = o]
    /\ arg' = [arg EXCEPT ![w] = a]
    /\ pc' = [pc EXCEPT ![w] = "done"]
    /\ loaded' = [loaded EXCEPT ![w] = <<>>]
    /\ status' = [status EXCEPT ![w] = st]
    /\ resp' = [resp EXCEPT ![w] = r]
    /\ detail' = [detail EXCEPT ![w] = d]
    /\ UNCHANGED fetch

\* Worker w answers request o with status st and body r.
Answer(w, o, a, st, r) == Reply(w, o, a, st, r, NoDetail)

\* (mutant) a not-found error caught by "except Exception".
NotFound_caught(w, o, a, kind, id) == Reply(w, o, a, 500, <<>>, NoDetail)

\* raise EntityNotFoundError(str(id)) / RelationshipNotFoundError(str(id)):
\* 404 with detail "<kind> with ID '<id>' not found".
NotFound(w, o, a, kind, id) ==
    Reply(w, o, a, 404, <<>>, [kind |-> kind, id |-> id])

\* Time passes.
Tick ==
    /\ clock < MaxClock
    /\ clock' = clock + 1
    /\ UNCHANGED <<db, op, pc, arg, loaded, status, resp, detail, fetch>>

Remove(f, id) == [k \in DOMAIN f \ {id} |-> f[k]]
Put(f, id, row) == [k \in DOMAIN f \cup {id} |-> IF k = id THEN row ELSE f[k]]

(***************************************************************************)
(* Responses.  FastAPI validates what a handler returns against its        *)
(* response_model, reading the fields from the ORM object's attributes; a  *)
(* value that does not validate raises ResponseValidationError: 500.       *)
(***************************************************************************)
\* EntityResponse(EntityBase) of a row: the constraints of EntityBase hold
\* again (the stored name and entity_type always satisfy theirs).
EntityResponseValid(row) ==
    /\ row.name_nepali.some => StrLen(row.name_nepali.v) <= NameMaxLen
    /\ row.description.some => StrLen(row.description.v) <= DescriptionMaxLen

\* EntityResponse inherits the validators of EntityBase, which run on the
\* stored description and metadata (read through alias meta_data).
EntityResponse(row) ==
    [id |-> row.id, name |-> row.name, name_nepali |-> row.name_nepali,
     entity_type |-> row.entity_type,
     description |-> sanitize_description(row.description),
     metadata |-> sanitize_metadata(row.meta_data),
     created_at |-> row.created_at, updated_at |-> row.updated_at,
     version |-> row.version]

\* response_model=EntityResponse / List[EntityResponse]
RespondEntities(w, o, a, ok, rows) ==
    IF \A i \in DOMAIN rows : EntityResponseValid(rows[i])
    THEN Answer(w, o, a, ok, [i \in DOMAIN rows |-> EntityResponse(rows[i])])
    ELSE Answer(w, o, a, 500, <<>>)

(***************************************************************************)
(* app/api/v1/endpoints/entities.py.  A step of a handler is one access to *)
(* the database: the SELECT that loads the object, the flush and COMMIT,   *)
(* the SELECT of db.refresh.  FastAPI validates the parameters and the     *)
(* body before the handler runs and answers 422 without calling it.        *)
(***************************************************************************)
EntityIds == 1 .. MaxEntities

\* create_entity: Entity(**entity_data), db.add, db.commit.
CreateEntity(w, b, cap) ==
    /\ Free(w)
    /\ IF ~EntityCreateValid(b)
       THEN /\ Answer(w, "create_entity", [id |-> 0, body |-> b], 422, <<>>)
            /\ UNCHANGED <<db, clock>>
       ELSE /\ entitySeq < cap
            /\ LET id == entitySeq + 1 IN
               /\ entities' = Put(entities, id,
                                  NewEntityRow(id, EntityCreateDump(b), clock))
               /\ entitySeq' = id
               /\ Goto(w, "create_entity", [id |-> id, body |-> b], "refresh", <<>>)
            /\ UNCHANGED <<relationships, relSeq, clock>>

\* create_entity / update_entity: db.refresh(obj) and the return.  A row
\* deleted since the commit makes refresh raise, which the handler turns
\* into DatabaseError.
RefreshEntity(w) ==
    /\ pc[w] = "refresh"
    /\ op[w] \in {"create_entity", "update_entity"}
    /\ IF arg[w].id \in DOMAIN entities
       THEN RespondEntities(w, op[w], arg[w],
                            IF op[w] = "create_entity" THEN 201 ELSE 200,
                            <<entities[arg[w].id]>>)
       ELSE Answer(w, op[w], arg[w], 500, <<>>)
    /\ UNCHANGED <<db, clock>>

\* get_entity
GetEntity(w, id) ==
    /\ Free(w)
    /\ IF id \in DOMAIN entities
       THEN RespondEntities(w, "get_entity", [id |-> id], 200, <<entities[id]>>)
       ELSE NotFound(w, "get_entity", [id |-> id], "Entity", id)
    /\ UNCHANGED <<db, clock>>

\* update_entity, lines 184-190: the SELECT and the not-found check.
SelectUpdateEntity(w, id, b) ==
    /\ Free(w)
    /\ IF ~EntityUpdateValid(b)
       THEN Answer(w, "update_entity", [id |-> id, body |-> b], 422, <<>>)
       ELSE IF id \notin DOMAIN entities
       THEN NotFound(w, "update_entity", [id |-> id, body |-> b], "Entity", id)
       ELSE Goto(w, "update_entity", [id |-> id, body |-> b], "commit",
                 <<entities[id]>>)
    /\ UNCHANGED <<db, clock>>

\* The columns whose assigned value differs from the loaded one: the ORM
\* puts exactly these in the UPDATE, and emits no UPDATE when there is none.
ChangedColumns(row, b) ==
    {c \in UpdateColumns(b) : UpdateValue(b, c) # ColumnValue(row, c)}

\* (mutant) columns that take NULL.
NotNullViolated_none(b, changed) == FALSE

\* nullable=False on name and entity_type.
NotNullViolated(b, changed) ==
    \/ "name" \in changed /\ ~b.name.some
    \/ "entity_type" \in changed /\ b.entity_type = NullType

\* UPDATE entities SET <changed columns>, updated_at = now() WHERE id = ...
UpdatedRow(cur, b, changed, now) ==
    [cur EXCEPT
       !.name = IF "name" \in changed THEN UpdateValue(b, "name") ELSE @,
       !.name_nepali = IF "name_nepali" \in changed
                       THEN UpdateValue(b, "name_nepali") ELSE @,
       !.entity_type = IF "entity_type" \in changed
                       THEN UpdateValue(b, "entity_type").v ELSE @,
       !.description = IF "description" \in changed
                       THEN UpdateValue(b, "description") ELSE @,
       !.meta_data = IF "meta_data" \in changed
                     THEN UpdateValue(b, "meta_data") ELSE @,
       !.updated_at = now]

\* (mutant) an update that writes the loaded row back when it is gone.
CommitUpdateEntity_upsert(w) ==
    /\ pc[w] = "commit"
    /\ op[w] = "update_entity"
    /\ LET b == arg[w].body
           changed == ChangedColumns(loaded[w][1], b)
       IN /\ entities' = Put(entities, arg[w].id,
                             UpdatedRow(loaded[w][1], b, changed, clock))
          /\ Goto(w, op[w], arg[w], "refresh", <<>>)
    /\ UNCHANGED <<relationships, entitySeq, relSeq, clock>>

\* update_entity, lines 192-199: setattr of the dumped fields and db.commit.
\* An UPDATE that matches no row (the row was deleted meanwhile) raises
\* StaleDataError, a NULL in a NOT NULL column raises IntegrityError; both
\* reach "except Exception": rollback and DatabaseError.
CommitUpdateEntity(w) ==
    /\ pc[w] = "commit"
    /\ op[w] = "update_entity"
    /\ LET id == arg[w].id
           b == arg[w].body
           changed == ChangedColumns(loaded[w][1], b)
       IN IF changed = {}
          THEN /\ Goto(w, op[w], arg[w], "refresh", <<>>)
               /\ UNCHANGED db
          ELSE IF id \notin DOMAIN entities \/ NotNullViolated(b, changed)
          THEN /\ Answer(w, op[w], arg[w], 500, <<>>)
               /\ UNCHANGED db
          ELSE /\ entities' = Put(entities, id,
                                  UpdatedRow(entities[id], b, changed, clock))
               /\ Goto(w, op[w], arg[w], "refresh", <<>>)
               /\ UNCHANGED <<relationships, entitySeq, relSeq>>
    /\ UNCHANGED clock

\* delete_entity, lines 231-236: the SELECT and the not-found check.
SelectDeleteEntity(w, id) ==
    /\ Free(w)
    /\ IF id \notin DOMAIN entities
       THEN NotFound(w, "delete_entity", [id |-> id], "Entity", id)
       ELSE Goto(w, "delete_entity", [id |-> id], "commit", <<entities[id]>>)
    /\ UNCHANGED <<db, clock>>

\* (mutant) a delete that leaves the dependent rows behind.
CascadeDelete_none(rels, id) == rels

\* ForeignKey("entities.id", ondelete="CASCADE") on source_entity_id and
\* target_entity_id: the rows the DELETE of entity id takes with it.
CascadeDelete(rels, id) ==
    [k \in {r \in DOMAIN rels : /\ rels[r].source_entity_id # id
                                /\ rels[r].target_entity_id # id} |-> rels[k]]

\* delete_entity, lines 238-239: db.delete and db.commit.  A DELETE that
\* matches no row only warns, and the commit succeeds.
CommitDeleteEntity(w) ==
    /\ pc[w] = "commit"
    /\ op[w] = "delete_entity"
    /\ entities' = Remove(entities, arg[w].id)
    /\ relationships' = IF arg[w].id \in DOMAIN entities
                        THEN CascadeDelete(relationships, arg[w].id)
                        ELSE relationships
    /\ Answer(w, op[w], arg[w], 204, <<>>)
    /\ UNCHANGED <<entitySeq, relSeq, clock>>

(***************************************************************************)
(* Listing: ORDER BY created_at DESC, OFFSET skip, LIMIT limit.            *)
(***************************************************************************)
LimitMin == 1
LimitMax == 1000

\* (mutant) a limit with no upper bound.
PaginationValid_unbounded(skip, limit) == skip >= 0 /\ limit >= LimitMin

\* Query(0, ge=0) and Query(100, ge=1, le=1000)
PaginationValid(skip, limit) ==
    skip >= 0 /\ limit >= LimitMin /\ limit <= LimitMax

\* Every order of the rows of table tbl with ids in ids that ORDER BY
\* created_at DESC allows: rows with equal created_at come in any order.
Orderings(tbl, ids) ==
    {s \in [1 .. Cardinality(ids) -> ids] :
        /\ \A i, j \in DOMAIN s : i # j => s[i] # s[j]
        /\ \A i, j \in DOMAIN s :
              i < j => tbl[s[i]].created_at >= tbl[s[j]].created_at}

\* (mutant) a window that starts at the first row whatever skip is.
Window_noskip(s, skip, limit) ==
    [i \in 1 .. (IF Len(s) < limit THEN Len(s) ELSE limit) |-> s[i]]

\* OFFSET skip LIMIT limit
Window(s, skip, limit) ==
    [i \in 1 .. (IF Len(s) - skip < limit
                 THEN (IF Len(s) - skip < 0 THEN 0 ELSE Len(s) - skip)
                 ELSE limit) |-> s[skip + i]]

\* The characters of a string, pad written out.
Chars(s) == s.toks \o [i \in 1 .. s.pad |-> "x"]

\* Lower case of a character (ILIKE compares without case).
Lower(c) ==
    CASE c = "R" -> "r"
      [] c = "G" -> "g"
      [] OTHER -> c

\* text LIKE pattern, without case: % is any run of characters, _ any one.
RECURSIVE Like(_, _)
Like(pat, text) ==
    IF pat = <<>> THEN text = <<>>
    ELSE IF Head(pat) = "%"
    THEN \E k \in 0 .. Len(text) :
            Like(Tail(pat), SubSeq(text, k + 1, Len(text)))
    ELSE /\ text # <<>>
         /\ Head(pat) = "_" \/ Lower(Head(pat)) = Lower(Head(text))
         /\ Like(Tail(pat), Tail(text))

\* column.ilike(f"%{search}%"); NULL ILIKE ... is not true.
ILike(col, search) ==
    col.some /\ Like(<<"%">> \o Chars(search) \o <<"%">>, Chars(col.v))

\* A filter that was not given (entity_type=None, search=None).
NoType == ""
NoSearch == NullStr

\* list_entities, lines 93-105: the WHERE clause.  "if entity_type:" and
\* "if search:" skip a filter that is None or empty.
EntityMatches(row, entity_type, search) ==
    /\ entity_type # NoType => row.entity_type = entity_type
    /\ Truthy(search) =>
          ILike(row.name, search.v) \/ ILike(row.name_nepali, search.v)

\* list_entities
ListEntities(w, skip, limit, entity_type, search) ==
    /\ Free(w)
    /\ LET a == [id |-> 0, skip |-> skip, limit |-> limit,
                 entity_type |-> entity_type, search |-> search]
       IN IF ~(PaginationValid(skip, limit)
               /\ entity_type \in EntityTypes \cup {NoType})
          THEN Answer(w, "list_entities", a, 422, <<>>)
          ELSE \E s \in Orderings(entities,
                     {id \in DOMAIN entities :
                         EntityMatches(entities[id], entity_type, search)}) :
                  RespondEntities(w, "list_entities", a, 200,
                      [i \in DOMAIN Window(s, skip, limit) |->
                          entities[Window(s, skip, limit)[i]]])
    /\ UNCHANGED <<db, clock>>

(***************************************************************************)
(* app/schemas/relationship.py, app/api/v1/endpoints/relationships.py.     *)
(***************************************************************************)
RelationshipTypeMaxLen == 100

RelationshipBody(set, source, target, relationship_type, description, metadata) ==
    [set |-> set, source_entity_id |-> source, target_entity_id |-> target,
     relationship_type |-> relationship_type, description |-> description,
     metadata |-> metadata]

\* RelationshipCreate (RelationshipBase)
RelationshipCreateValid(b) ==
    /\ {"source_entity_id", "target_entity_id", "relationship_type"} \subseteq b.set
    /\ b.relationship_type.some
    /\ StrLen(b.relationship_type.v) >= 1
    /\ StrLen(b.relationship_type.v) <= RelationshipTypeMaxLen

\* RelationshipUpdate
RelationshipUpdateValid(b) ==
    ("relationship_type" \in b.set /\ b.relationship_type.some)
       => /\ StrLen(b.relationship_type.v) >= 1
          /\ StrLen(b.relationship_type.v) <= RelationshipTypeMaxLen

\* Relationship(**relationship.model_dump()) as INSERTed.  The dump's key
\* 'metadata' is no column: the constructor sets it as a plain attribute of
\* the object (the class has an attribute of that name, the declarative
\* registry), and column meta_data takes its default {}.
NewRelationshipRow(id, b, now) ==
    [id |-> id, source_entity_id |-> b.source_entity_id,
     target_entity_id |-> b.target_entity_id,
     relationship_type |-> b.relationship_type,
     description |-> IF "description" \in b.set THEN b.description ELSE NullStr,
     meta_data |-> EmptyMeta, created_at |-> now, updated_at |-> NullTime]

\* The attribute 'metadata' of a Relationship object: the value the handler
\* assigned to it (isdict), else the declarative registry of the class.
AssignedMetadata(v) == [isdict |-> TRUE, v |-> v]
RegistryMetadata == [isdict |-> FALSE, v |-> NullMeta]

\* RelationshipResponse of an object: field metadata is read from attribute
\* 'metadata' and must be a mapping or None.
RelationshipResponseValid(obj) == obj.metadata.isdict

RelationshipResponse(obj) ==
    [id |-> obj.row.id, source_entity_id |-> obj.row.source_entity_id,
     target_entity_id |-> obj.row.target_entity_id,
     relationship_type |-> obj.row.relationship_type,
     description |-> obj.row.description, metadata |-> obj.metadata.v,
     created_at |-> obj.row.created_at, updated_at |-> obj.row.updated_at]

\* response_model=RelationshipResponse / List[RelationshipResponse]
RespondRelationships(w, o, a, ok, objs) ==
    IF \A i \in DOMAIN objs : RelationshipResponseValid(objs[i])
    THEN Answer(w, o, a, ok,
                [i \in DOMAIN objs |-> RelationshipResponse(objs[i])])
    ELSE Answer(w, o, a, 500, <<>>)

\* An object as a SELECT loads it.
Loaded(row) == [row |-> row, metadata |-> RegistryMetadata]

RelationshipIds == 1 .. MaxRelationships

\* (mutant) a missing source reported with the id of the target.
SelectSourceEntity_target(w, b) ==
    /\ Free(w)
    /\ LET a == [id |-> 0, body |-> b, missing |-> 0] IN
       IF ~RelationshipCreateValid(b)
       THEN Answer(w, "create_relationship", a, 422, <<>>)
       ELSE IF b.source_entity_id \notin DOMAIN entities
       THEN NotFound(w, "create_relationship",
                     [a EXCEPT !.missing = b.target_entity_id],
                     "Entity", b.target_entity_id)
       ELSE /\ relSeq < MaxRelationships
            /\ Goto(w, "create_relationship", a, "target", <<>>)
    /\ UNCHANGED <<db, clock>>

\* create_relationship, lines 53-61: the SELECT of the source entity.
SelectSourceEntity(w, b) ==
    /\ Free(w)
    /\ LET a == [id |-> 0, body |-> b, missing |-> 0] IN
       IF ~RelationshipCreateValid(b)
       THEN Answer(w, "create_relationship", a, 422, <<>>)
       ELSE IF b.source_entity_id \notin DOMAIN entities
       THEN NotFound(w, "create_relationship",
                     [a EXCEPT !.missing = b.source_entity_id],
                     "Entity", b.source_entity_id)
       ELSE /\ relSeq < MaxRelationships
            /\ Goto(w, "create_relationship", a, "target", <<>>)
    /\ UNCHANGED <<db, clock>>

\* (mutant) the target is taken on trust.
SelectTargetEntity_unchecked(w) ==
    /\ pc[w] = "target"
    /\ op[w] = "create_relationship"
    /\ Goto(w, op[w], arg[w], "commit", <<>>)
    /\ UNCHANGED <<db, clock>>

\* create_relationship, lines 63-71: the SELECT of the target entity.
SelectTargetEntity(w) ==
    /\ pc[w] = "target"
    /\ op[w] = "create_relationship"
    /\ IF arg[w].body.target_entity_id \notin DOMAIN entities
       THEN NotFound(w, op[w],
                     [arg[w] EXCEPT !.missing = arg[w].body.target_entity_id],
                     "Entity", arg[w].body.target_entity_id)
       ELSE Goto(w, op[w], arg[w], "commit", <<>>)
    /\ UNCHANGED <<db, clock>>

\* (mutant) an INSERT with no foreign key to check.
ForeignKeysHold_unchecked(ents, row) == TRUE

\* The foreign keys of table relationships, checked by the INSERT.
ForeignKeysHold(ents, row) ==
    /\ row.source_entity_id \in DOMAIN ents
    /\ row.target_entity_id \in DOMAIN ents

\* create_relationship, lines 73-75: db.add and db.commit.  An INSERT that
\* violates a foreign key raises IntegrityError, which reaches "except
\* Exception": rollback and DatabaseError.
CommitCreateRelationship(w) ==
    /\ pc[w] = "commit"
    /\ op[w] = "create_relationship"
    /\ relSeq < MaxRelationships
    /\ LET id == relSeq + 1
           row == NewRelationshipRow(id, arg[w].body, clock)
       IN IF ForeignKeysHold(entities, row)
          THEN /\ relationships' = Put(relationships, id, row)
               /\ relSeq' = id
               /\ Goto(w, op[w], [arg[w] EXCEPT !.id = id], "refresh", <<>>)
               /\ UNCHANGED <<entities, entitySeq>>
          ELSE /\ Answer(w, op[w], arg[w], 500, <<>>)
               /\ UNCHANGED db
    /\ UNCHANGED clock

\* The attribute 'metadata' of the object a handler returns.
ReturnedMetadata(o, b) ==
    IF o = "create_relationship"
    THEN AssignedMetadata(IF "metadata" \in b.set THEN b.metadata ELSE EmptyMeta)
    ELSE IF "metadata" \in b.set
    THEN AssignedMetadata(b.metadata)
    ELSE RegistryMetadata

\* create_relationship / update_relationship: db.refresh(obj) and the return.
RefreshRelationship(w) ==
    /\ pc[w] = "refresh"
    /\ op[w] \in {"create_relationship", "update_relationship"}
    /\ IF arg[w].id \in DOMAIN relationships
       THEN RespondRelationships(w, op[w], arg[w],
                IF op[w] = "create_relationship" THEN 201 ELSE 200,
                <<[row |-> relationships[arg[w].id],
                   metadata |-> ReturnedMetadata(op[w], arg[w].body)]>>)
       ELSE Answer(w, op[w], arg[w], 500, <<>>)
    /\ UNCHANGED <<db, clock>>

\* get_relationship
GetRelationship(w, id) ==
    /\ Free(w)
    /\ IF id \in DOMAIN relationships
       THEN RespondRelationships(w, "get_relationship", [id |-> id], 200,
                                 <<Loaded(relationships[id])>>)
       ELSE NotFound(w, "get_relationship", [id |-> id], "Relationship", id)
    /\ UNCHANGED <<db, clock>>

\* A filter that was not given (entity_id=None, relationship_type=None).
NoEntity == 0

\* list_relationships, lines 121-130: the WHERE clause.
RelationshipMatches(row, entity_id, relationship_type) ==
    /\ entity_id # NoEntity =>
          row.source_entity_id = entity_id \/ row.target_entity_id = entity_id
    /\ Truthy(relationship_type) => row.relationship_type = relationship_type

\* The ids of the rows of tbl the WHERE clause of list_relationships keeps.
SelectedRelationships(tbl, entity_id, relationship_type) ==
    {id \in DOMAIN tbl :
        RelationshipMatches(tbl[id], entity_id, relationship_type)}

\* list_relationships
ListRelationships(w, skip, limit, entity_id, relationship_type) ==
    /\ Free(w)
    /\ LET a == [id |-> 0, skip |-> skip, limit |-> limit,
                 entity_id |-> entity_id,
                 relationship_type |-> relationship_type]
       IN IF ~PaginationValid(skip, limit)
          THEN Answer(w, "list_relationships", a, 422, <<>>)
          ELSE \E s \in Orderings(relationships,
                     SelectedRelationships(relationships, entity_id,
                                           relationship_type)) :
                  RespondRelationships(w, "list_relationships", a, 200,
                      [i \in DOMAIN Window(s, skip, limit) |->
                          Loaded(relationships[Window(s, skip, limit)[i]])])
    /\ UNCHANGED <<db, clock>>

\* update_relationship, lines 212-219: the SELECT and the not-found check.
SelectUpdateRelationship(w, id, b) ==
    /\ Free(w)
    /\ LET a == [id |-> id, body |-> b] IN
       IF ~RelationshipUpdateValid(b)
       THEN Answer(w, "update_relationship", a, 422, <<>>)
       ELSE IF id \notin DOMAIN relationships
       THEN NotFound(w, "update_relationship", a, "Relationship", id)
       ELSE Goto(w, "update_relationship", a, "commit", <<relationships[id]>>)
    /\ UNCHANGED <<db, clock>>

\* The columns update_relationship assigns ('metadata' is no column) whose
\* value differs from the loaded one.
ChangedRelationshipColumns(row, b) ==
    {c \in b.set \cap {"relationship_type", "description"} :
        IF c = "description" THEN b.description # row.description
        ELSE b.relationship_type # row.relationship_type}

\* (mutant) an update that assigns every key of the body, the endpoints
\* included.
CommitUpdateRelationship_rewire(w) ==
    /\ pc[w] = "commit"
    /\ op[w] = "update_relationship"
    /\ LET id == arg[w].id
           b == arg[w].body
       IN IF id \notin DOMAIN relationships
          THEN /\ Answer(w, op[w], arg[w], 500, <<>>)
               /\ UNCHANGED db
          ELSE /\ relationships' = Put(relationships, id,
                    [relationships[id] EXCEPT
                       !.source_entity_id =
                           IF "source_entity_id" \in b.set
                           THEN b.source_entity_id ELSE @,
                       !.relationship_type =
                           IF "relationship_type" \in b.set
                           THEN b.relationship_type ELSE @,
                       !.description =
                           IF "description" \in b.set
                           THEN b.description ELSE @,
                       !.updated_at = clock])
               /\ Goto(w, op[w], arg[w], "refresh", <<>>)
               /\ UNCHANGED <<entities, entitySeq, relSeq>>
    /\ UNCHANGED clock

\* update_relationship, lines 221-225: setattr of the dumped fields and
\* db.commit; failures as in update_entity.
CommitUpdateRelationship(w) ==
    /\ pc[w] = "commit"
    /\ op[w] = "update_relationship"
    /\ LET id == arg[w].id
           b == arg[w].body
           changed == ChangedRelationshipColumns(loaded[w][1], b)
       IN IF changed = {}
          THEN /\ Goto(w, op[w], arg[w], "refresh", <<>>)
               /\ UNCHANGED db
          ELSE IF \/ id \notin DOMAIN relationships
                  \/ "relationship_type" \in changed /\ ~b.relationship_type.some
          THEN /\ Answer(w, op[w], arg[w], 500, <<>>)
               /\ UNCHANGED db
          ELSE /\ relationships' = Put(relationships, id,
                    [relationships[id] EXCEPT
                       !.relationship_type =
                           IF "relationship_type" \in changed
                           THEN b.relationship_type ELSE @,
                       !.description =
                           IF "description" \in changed
                           THEN b.description ELSE @,
                       !.updated_at = clock])
               /\ Goto(w, op[w], arg[w], "refresh", <<>>)
               /\ UNCHANGED <<entities, entitySeq, relSeq>>
    /\ UNCHANGED clock

\* delete_relationship, lines 257-264: the SELECT and the not-found check.
SelectDeleteRelationship(w, id) ==
    /\ Free(w)
    /\ IF id \notin DOMAIN relationships
       THEN NotFound(w, "delete_relationship", [id |-> id], "Relationship", id)
       ELSE Goto(w, "delete_relationship", [id |-> id], "commit",
                 <<relationships[id]>>)
    /\ UNCHANGED <<db, clock>>

\* (mutant) a delete that takes the source entity with it.
CommitDeleteRelationship_cascade(w) ==
    /\ pc[w] = "commit"
    /\ op[w] = "delete_relationship"
    /\ relationships' = Remove(relationships, arg[w].id)
    /\ entities' = Remove(entities, loaded[w][1].source_entity_id)
    /\ Answer(w, op[w], arg[w], 204, <<>>)
    /\ UNCHANGED <<entitySeq, relSeq, clock>>

\* delete_relationship, lines 266-267: db.delete and db.commit.
CommitDeleteRelationship(w) ==
    /\ pc[w] = "commit"
    /\ op[w] = "delete_relationship"
    /\ relationships' = Remove(relationships, arg[w].id)
    /\ Answer(w, op[w], arg[w], 204, <<>>)
    /\ UNCHANGED <<entities, entitySeq, relSeq, clock>>

(***************************************************************************)
(* Requests.                                                               *)
(***************************************************************************)
N_Ram == Str(<<"R", "a", "m">>, 0)
N_Gov == Str(<<"G", "o", "v">>, 0)
T_WorksFor == Str(<<"works_for">>, 0)
T_MemberOf == Str(<<"member_of">>, 0)
D_Since == Str(<<"Hello">>, 0)

\* {"name": "Ram", "entity_type": "person"}
PersonBody ==
    EntityBody({"name", "entity_type"}, SomeStr(N_Ram), NullStr, "person",
               NullStr, NullMeta)

\* {"source_entity_id": s, "target_entity_id": t, "relationship_type": "works_for"}
EdgeBody(s, t) ==
    RelationshipBody({"source_entity_id", "target_entity_id", "relationship_type"},
                     s, t, SomeStr(T_WorksFor), NullStr, NullMeta)

\* {"description": "Hello", "metadata": {}}
DescribeBody ==
    RelationshipBody({"description", "metadata"}, 0, 0, NullStr,
                     SomeStr(D_Since), EmptyMeta)

(***************************************************************************)
(* The referential-integrity system: entities are created and deleted,     *)
(* relationships created, updated, deleted and listed, by two concurrent   *)
(* workers.                                                                *)
(***************************************************************************)
NextRef ==
    \E w \in Workers :
        \/ CreateEntity(w, PersonBody, MaxEntities)
        \/ RefreshEntity(w)
        \/ \E id \in EntityIds : SelectDeleteEntity(w, id)
        \/ CommitDeleteEntity(w)
        \/ \E s, t \in EntityIds : SelectSourceEntity(w, EdgeBody(s, t))
        \/ SelectTargetEntity(w)
        \/ CommitCreateRelationship(w)
        \/ RefreshRelationship(w)
        \/ \E id \in RelationshipIds :
              SelectUpdateRelationship(w, id, DescribeBody)
        \/ CommitUpdateRelationship(w)
        \/ \E id \in RelationshipIds : SelectDeleteRelationship(w, id)
        \/ CommitDeleteRelationship(w)
        \/ \E e \in EntityIds :
              ListRelationships(w, 0, LimitMax, e, NullStr)

SpecRef == Init /\ [][NextRef]_vars

(***************************************************************************)
(* Properties of the referential-integrity system.                         *)
(***************************************************************************)
\* Worker w took a step.
Stepped(w) ==
    <<op[w], pc[w], arg[w], status[w], resp[w]>>
       # <<op'[w], pc'[w], arg'[w], status'[w], resp'[w]>>

\* Worker w took a step that ended its request.
Ended(w) == Stepped(w) /\ pc'[w] = "done"

TablesUnchanged == entities' = entities /\ relationships' = relationships

\* C1: in every reachable state, whatever the interleaving of the workers'
\* create_entity, delete_entity, create_relationship, update_relationship
\* and delete_relationship steps, both endpoints of every committed
\* relationship are ids of entities that exist.
C1_ReferentialIntegrity ==
    \A r \in DOMAIN relationships :
        /\ relationships[r].source_entity_id \in DOMAIN entities
        /\ relationships[r].target_entity_id \in DOMAIN entities

\* C1 witness: a relationship is committed, and one worker's
\* create_relationship lost the race against the other's delete_entity (it
\* passed both checks and its INSERT was refused).
C1_Witness ==
    /\ DOMAIN relationships # {}
    /\ \E w, v \in Workers :
          /\ op[w] = "create_relationship" /\ pc[w] = "done" /\ status[w] = 500
          /\ arg[w].id = 0
          /\ op[v] = "delete_entity" /\ pc[v] = "done" /\ status[v] = 204
          /\ arg[v].id \in {arg[w].body.source_entity_id,
                            arg[w].body.target_entity_id}

\* The relationships that have entity e as source or as target.
Touching(rels, e) ==
    {r \in DOMAIN rels :
        rels[r].source_entity_id = e \/ rels[r].target_entity_id = e}

\* C2: the step that deletes entity e removes, in the same step, every
\* relationship with e as source or target, and list_relationships filtered
\* by e or by the other endpoint of such a relationship then selects none
\* of them.
C2_CascadeAtomic ==
    [][\A e \in DOMAIN entities :
          e \notin DOMAIN entities' =>
             /\ Touching(relationships', e) = {}
             /\ \A r \in Touching(relationships, e) :
                   \A x \in {e, relationships[r].source_entity_id,
                             relationships[r].target_entity_id} :
                      r \notin SelectedRelationships(relationships', x, NullStr)
      ]_vars

\* C2 witness: delete_entity answered 204 for an endpoint of a relationship
\* that the other worker created, and the relationship is gone.
C2_Witness ==
    \E w, v \in Workers :
        /\ op[w] = "delete_entity" /\ pc[w] = "done" /\ status[w] = 204
        /\ op[v] = "create_relationship" /\ pc[v] = "done" /\ status[v] = 201
        /\ arg[w].id = arg[v].body.source_entity_id
        /\ arg[w].id # arg[v].body.target_entity_id
        /\ arg[v].body.target_entity_id \in DOMAIN entities
        /\ arg[v].id \notin DOMAIN relationships

\* C3: the step of create_relationship that looks up an endpoint which does
\* not exist ends the request with 404 and an empty body, and leaves both
\* tables as they were.
C3_MissingEndpointNotFound ==
    [][\A w \in Workers :
          (/\ Stepped(w)
           /\ op'[w] = "create_relationship"
           /\ RelationshipCreateValid(arg'[w].body)
           /\ \/ Free(w) /\ arg'[w].body.source_entity_id \notin DOMAIN entities
              \/ /\ pc[w] = "target"
                 /\ arg'[w].body.target_entity_id \notin DOMAIN entities)
          => /\ pc'[w] = "done" /\ status'[w] = 404 /\ resp'[w] = <<>>
             /\ TablesUnchanged
      ]_vars

\* C3 witness: a create_relationship whose source exists and whose target
\* does not was answered 404.
C3_Witness ==
    \E w \in Workers :
        /\ op[w] = "create_relationship" /\ pc[w] = "done" /\ status[w] = 404
        /\ arg[w].missing = arg[w].body.target_entity_id
        /\ arg[w].body.source_entity_id # arg[w].body.target_entity_id
        /\ arg[w].body.source_entity_id \in DOMAIN entities

\* C4 (as claimed): whenever a create_relationship step fails while an
\* endpoint of the relationship is missing, at the checks or at the commit,
\* the request is answered 404.
C4_MissingAtCommitIsNotFound ==
    [][\A w \in Workers :
          (/\ Ended(w)
           /\ op'[w] = "create_relationship"
           /\ pc[w] \in {"idle", "done", "target", "commit"}
           /\ RelationshipCreateValid(arg'[w].body)
           /\ status'[w] # 201
           /\ \/ arg'[w].body.source_entity_id \notin DOMAIN entities
              \/ arg'[w].body.target_entity_id \notin DOMAIN entities)
          => status'[w] = 404
      ]_vars

(***************************************************************************)
(* The entity system: one entity at a time is created, read and updated by *)
(* two concurrent workers, with bodies that exercise every field.          *)
(***************************************************************************)
N_Nepali == Str(<<"n", "e">>, 0)

\* "<script>alert(1)</script>Hello"
D_Script == Str(<<"<script>", "alert(1)", "</script>", "Hello">>, 0)

\* "<b>Hello&</b>"
S_Bold == Str(<<"<b>", "Hello", "&", "</b>">>, 0)

\* {"bio": "<b>Hello&</b>", "age": 1, "tags": ["<b>Hello&</b>"],
\*  "info": {"note": "<b>Hello&</b>"}}
M_Mixed ==
    SomeMeta(<<JStr("bio", S_Bold), JNum("age", 1),
               JList("tags", <<JStr("", S_Bold)>>),
               JDict("info", <<JStr("note", S_Bold)>>)>>)

EntityCreateBodies ==
    {EntityBody({"name", "entity_type", "description", "metadata"},
                SomeStr(N_Ram), NullStr, "person", SomeStr(D_Script), M_Mixed),
     EntityBody({"name", "name_nepali", "entity_type", "description", "metadata"},
                SomeStr(N_Gov), SomeStr(N_Nepali), "government",
                SomeStr(EmptyStr), NullMeta),
     PersonBody,
     \* rejected: an empty name
     EntityBody({"name", "entity_type"}, SomeStr(EmptyStr), NullStr, "person",
                NullStr, NullMeta)}

EntityUpdateBodies ==
    {EntityBody({}, NullStr, NullStr, NullType, NullStr, NullMeta),
     EntityBody({"name", "entity_type"}, SomeStr(N_Ram), NullStr,
                "organization", NullStr, NullMeta),
     EntityBody({"description"}, NullStr, NullStr, NullType,
                SomeStr(D_Script), NullMeta),
     EntityBody({"metadata"}, NullStr, NullStr, NullType, NullStr, M_Mixed),
     EntityBody({"metadata"}, NullStr, NullStr, NullType, NullStr, NullMeta),
     \* accepted by the schema, refused by the table
     EntityBody({"name"}, NullStr, NullStr, NullType, NullStr, NullMeta)}

\* The entity system creates MaxLive entities in all.
MaxLive == 1

NextEntity ==
    \/ Tick
    \/ \E w \in Workers :
        \/ \E b \in EntityCreateBodies : CreateEntity(w, b, MaxLive)
        \/ RefreshEntity(w)
        \/ \E id \in 1 .. MaxLive : GetEntity(w, id)
        \/ \E id \in 1 .. MaxLive, b \in EntityUpdateBodies :
              SelectUpdateEntity(w, id, b)
        \/ CommitUpdateEntity(w)

SpecEntity == Init /\ [][NextEntity]_vars

(***************************************************************************)
(* Properties of the entity system.                                        *)
(***************************************************************************)
Columns == {"name", "name_nepali", "entity_type", "description", "meta_data"}

\* Worker w's step is the commit of its update_entity, and it succeeded.
UpdateCommitted(w) ==
    /\ op[w] = "update_entity" /\ pc[w] = "commit"
    /\ Stepped(w) /\ pc'[w] = "refresh"

\* Worker w's step wrote column c of entity arg'[w].id from its body: the
\* INSERT of create_entity, or an UPDATE of update_entity that sets c.
WroteColumn(w, c) ==
    /\ Stepped(w) /\ pc'[w] = "refresh"
    /\ \/ Free(w) /\ op'[w] = "create_entity"
       \/ /\ UpdateCommitted(w)
          /\ c \in ChangedColumns(loaded[w][1], arg[w].body)

\* C5: the commit of an update_entity leaves every column that is not in
\* the input as it was, gives every column it changes the value of the
\* input, and changes neither id nor created_at (nor version).
C5_UpdateFrame ==
    [][\A w \in Workers :
          UpdateCommitted(w) =>
             LET id == arg[w].id
                 b == arg[w].body
             IN /\ id \in DOMAIN entities /\ id \in DOMAIN entities'
                /\ \A c \in Columns :
                      \/ ColumnValue(entities'[id], c) = ColumnValue(entities[id], c)
                      \/ /\ (IF c = "meta_data" THEN "metadata" ELSE c) \in b.set
                         /\ ColumnValue(entities'[id], c) = UpdateValue(b, c)
                /\ entities'[id].id = entities[id].id
                /\ entities'[id].created_at = entities[id].created_at
                /\ entities'[id].version = entities[id].version
                /\ \A o \in DOMAIN entities \ {id} :
                      o \in DOMAIN entities' /\ entities'[o] = entities[o]
      ]_vars

\* C5 witness: an update of the description alone was committed at a later
\* time than the creation; description and updated_at changed, the name,
\* the metadata and created_at are those of the create.
C5_Witness ==
    \E w \in Workers :
        /\ op[w] = "update_entity" /\ pc[w] = "refresh"
        /\ arg[w].body.set = {"description"}
        /\ arg[w].id \in DOMAIN entities
        /\ LET row == entities[arg[w].id] IN
              /\ row.description = sanitize_description(arg[w].body.description)
              /\ loaded[w] = <<>>
              /\ row.name = SomeStr(N_Gov)
              /\ row.meta_data = NullMeta
              /\ row.created_at = 1 /\ row.updated_at = 2

\* C6 (as claimed): the commit of every update_entity sets updated_at to
\* the time of that update, so that it is not null afterwards.
C6_UpdatedAtSet ==
    [][\A w \in Workers :
          UpdateCommitted(w) =>
             /\ entities'[arg[w].id].updated_at # NullTime
             /\ entities'[arg[w].id].updated_at = clock
      ]_vars

\* C7 (as claimed): the metadata of every stored entity is a mapping.
C7_MetadataNeverNull ==
    \A id \in DOMAIN entities : entities[id].meta_data.some

\* The text inside the script elements of a token sequence.
ScriptContent(ts) ==
    {ts[i] : i \in {n \in DOMAIN ts :
                      /\ ~IsTag(ts[n])
                      /\ \E a \in 1 .. n - 1 :
                            /\ ts[a] = "<script>"
                            /\ \A m \in a + 1 .. n - 1 : ts[m] # "</script>"}}

\* C8 (as claimed): the description an INSERT or UPDATE stores for a
\* supplied description has no tag and none of the text of the supplied
\* script elements; an empty or null description is stored as supplied.
C8_DescriptionSanitized ==
    [][\A w \in Workers :
          (WroteColumn(w, "description") /\ "description" \in arg'[w].body.set)
          => LET s == arg'[w].body.description
                 d == entities'[arg'[w].id].description
             IN IF Truthy(s)
                THEN /\ d.some
                     /\ \A i \in DOMAIN d.v.toks :
                           /\ ~IsTag(d.v.toks[i])
                           /\ d.v.toks[i] \notin ScriptContent(s.v.toks)
                     /\ s.v = D_Script => d.v = Str(<<"Hello">>, 0)
                ELSE d = s
      ]_vars

\* The strings of a metadata value at every depth, in document order.
RECURSIVE StringLeaves(_)
StringLeaves(nodes) ==
    IF nodes = <<>> THEN <<>>
    ELSE (IF Head(nodes).t = "str" THEN <<Head(nodes).s>>
          ELSE StringLeaves(Head(nodes).kids))
         \o StringLeaves(Tail(nodes))

\* A metadata value with every string at every depth blanked.
RECURSIVE Skeleton(_)
Skeleton(nodes) ==
    [i \in DOMAIN nodes |->
        [nodes[i] EXCEPT !.s = EmptyStr, !.kids = Skeleton(@)]]

\* C9 (as claimed): the metadata an INSERT or UPDATE stores for a supplied
\* mapping has, at every depth, the cleaned form of each supplied string,
\* and every other value as supplied.
C9_MetadataLeavesSanitized ==
    [][\A w \in Workers :
          (/\ WroteColumn(w, "meta_data")
           /\ "metadata" \in arg'[w].body.set
           /\ arg'[w].body.metadata.some)
          => LET s == arg'[w].body.metadata.v
                 d == entities'[arg'[w].id].meta_data
             IN /\ d.some
                /\ Skeleton(d.v) = Skeleton(s)
                /\ StringLeaves(d.v) =
                      [i \in DOMAIN StringLeaves(s) |->
                          bleach_clean(StringLeaves(s)[i])]
      ]_vars

(***************************************************************************)
(* The listing system: entities and relationships are created while two    *)
(* workers list them with pagination parameters on both sides of every     *)
(* bound.                                                                  *)
(***************************************************************************)
Skips == {-1, 0, 1}
Limits == {0, 1, 1000, 1001}

NextList ==
    \E w \in Workers :
        \/ CreateEntity(w, PersonBody, MaxEntities)
        \/ RefreshEntity(w)
        \/ \E t \in EntityIds : SelectSourceEntity(w, EdgeBody(1, t))
        \/ SelectTargetEntity(w)
        \/ CommitCreateRelationship(w)
        \/ RefreshRelationship(w)
        \/ \E skip \in Skips, limit \in Limits :
              ListEntities(w, skip, limit, NoType, NoSearch)
        \/ \E skip \in Skips, limit \in Limits :
              ListRelationships(w, skip, limit, NoEntity, NullStr)

SpecList == Init /\ [][NextList]_vars

\* Number of rows a window of limit rows after skip rows has in n rows.
WindowSize(n, skip, limit) ==
    IF n - skip <= 0 THEN 0 ELSE IF n - skip < limit THEN n - skip ELSE limit

\* C10: list_entities and list_relationships answer skip < 0, limit < 1 and
\* limit > 1000 with 422 and no rows; any other skip and limit (limit =
\* 1000 included) is not answered 422, and a listing that is returned has
\* the rows of the window asked for.
C10_PaginationBounds ==
    [][\A w \in Workers :
          (Stepped(w) /\ op'[w] \in {"list_entities", "list_relationships"})
          => LET a == arg'[w]
                 n == IF op'[w] = "list_entities"
                      THEN Cardinality(DOMAIN entities)
                      ELSE Cardinality(DOMAIN relationships)
             IN /\ pc'[w] = "done" /\ TablesUnchanged
                /\ IF a.skip < 0 \/ a.limit < 1 \/ a.limit > 1000
                   THEN status'[w] = 422 /\ resp'[w] = <<>>
                   ELSE /\ status'[w] # 422
                        /\ status'[w] = 200 =>
                              Len(resp'[w]) = WindowSize(n, a.skip, a.limit)
      ]_vars

\* C10 witness: with two entities and a relationship stored, list_entities
\* with limit = 1000 returned both entities, and list_relationships with
\* limit = 1001 was answered 422.
C10_Witness ==
    \E w, v \in Workers :
        /\ op[w] = "list_entities" /\ pc[w] = "done" /\ status[w] = 200
        /\ arg[w].limit = 1000 /\ arg[w].skip = 0 /\ Len(resp[w]) = 2
        /\ op[v] = "list_relationships" /\ pc[v] = "done" /\ status[v] = 422
        /\ arg[v].limit = 1001 /\ arg[v].skip = 0
        /\ DOMAIN relationships # {}

(***************************************************************************)
(* The paging system: entities of two types are created at different times *)
(* while two workers list them by type, page by page.                      *)
(***************************************************************************)
GovBody ==
    EntityBody({"name", "name_nepali", "entity_type"}, SomeStr(N_Gov),
               SomeStr(N_Nepali), "government", NullStr, NullMeta)

NextPage ==
    \/ Tick
    \/ \E w \in Workers :
        \/ \E b \in {PersonBody, GovBody} : CreateEntity(w, b, MaxEntities)
        \/ RefreshEntity(w)
        \/ \E skip \in {0, 1}, limit \in {1, 2}, t \in {NoType, "person"} :
              ListEntities(w, skip, limit, t, NoSearch)

SpecPage == Init /\ [][NextPage]_vars

\* Worker w's step is a list_entities request that was answered.
Listed(w) == Stepped(w) /\ op'[w] = "list_entities" /\ pc'[w] = "done"

\* C11: a list_entities with valid skip and limit is answered 200 with at
\* most limit entities, each satisfying the filters, in created_at
\* descending order, the i-th one at position skip + i of the qualifying
\* entities in that order, as many as that sequence has from position
\* skip + 1 on; with no qualifying entity the answer is 200 and empty.
C11_ListWindow ==
    [][\A w \in Workers :
          (Listed(w) /\ arg'[w].skip >= 0
             /\ arg'[w].limit >= 1 /\ arg'[w].limit <= 1000)
          => LET a == arg'[w]
                 r == resp'[w]
                 M == {id \in DOMAIN entities :
                         EntityMatches(entities[id], a.entity_type, a.search)}
                 Newer(t) == Cardinality({m \in M : entities[m].created_at > t})
                 NotOlder(t) == Cardinality({m \in M : entities[m].created_at >= t})
             IN /\ status'[w] = 200
                /\ Len(r) <= a.limit
                /\ Len(r) = WindowSize(Cardinality(M), a.skip, a.limit)
                /\ \A i \in DOMAIN r :
                      /\ r[i].id \in M
                      /\ r[i].name = entities[r[i].id].name
                      /\ r[i].created_at = entities[r[i].id].created_at
                      /\ Newer(r[i].created_at) <= a.skip + i - 1
                      /\ NotOlder(r[i].created_at) >= a.skip + i
                /\ \A i, j \in DOMAIN r :
                      i < j => /\ r[i].id # r[j].id
                               /\ r[i].created_at >= r[j].created_at
      ]_vars

\* C11 witness: of two persons created at different times, a list_entities
\* of persons with skip = 1 and limit = 1 returned the older one alone, and
\* a list_entities of persons found none and returned the empty sequence.
C11_Witness ==
    \E w, v \in Workers :
        /\ op[w] = "list_entities" /\ pc[w] = "done" /\ status[w] = 200
        /\ arg[w].skip = 1 /\ arg[w].limit = 1 /\ arg[w].entity_type = "person"
        /\ Len(resp[w]) = 1 /\ resp[w][1].id = 1
        /\ DOMAIN entities = {1, 2}
        /\ entities[1].created_at < entities[2].created_at
        /\ entities[2].entity_type = "person"
        /\ op[v] = "list_entities" /\ pc[v] = "done" /\ status[v] = 200
        /\ arg[v].entity_type = "person" /\ arg[v].skip = 0 /\ resp[v] = <<>>

(***************************************************************************)
(* The search system: a person without name_nepali and a government with   *)
(* one are created while two workers search for terms in either case, with *)
(* and without characters that LIKE reads as wildcards.                    *)
(***************************************************************************)
Searches ==
    {Str(<<"g">>, 0), Str(<<"A", "m">>, 0), Str(<<"n", "e">>, 0),
     Str(<<"x">>, 0), Str(<<"_">>, 0)}

NextSearch ==
    \E w \in Workers :
        \/ \E b \in {PersonBody, GovBody} : CreateEntity(w, b, MaxEntities)
        \/ RefreshEntity(w)
        \/ \E q \in Searches : ListEntities(w, 0, LimitMax, NoType, SomeStr(q))

SpecSearch == Init /\ [][NextSearch]_vars

\* Character sequence s occurs in text, compared without case.
Contains(text, s) ==
    \E k \in 0 .. Len(text) - Len(s) :
        \A i \in 1 .. Len(s) : Lower(text[k + i]) = Lower(s[i])

\* C12 (as claimed): a list_entities with a non-empty search term returns
\* exactly the entities whose name or whose name_nepali contains the term
\* as it is written, compared without case.
C12_SearchLiteral ==
    [][\A w \in Workers :
          (Listed(w) /\ Truthy(arg'[w].search))
          => LET q == Chars(arg'[w].search.v)
                 r == resp'[w]
             IN /\ status'[w] = 200
                /\ {r[i].id : i \in DOMAIN r} =
                      {id \in DOMAIN entities :
                          \/ Contains(Chars(entities[id].name.v), q)
                          \/ /\ entities[id].name_nepali.some
                             /\ Contains(Chars(entities[id].name_nepali.v), q)}
      ]_vars

(***************************************************************************)
(* Properties of the relationship handlers.                                *)
(***************************************************************************)
\* C13 (as claimed): a list_relationships with valid skip and limit is
\* answered 200 with the relationships that have entity_id as source or as
\* target (when entity_id is given) and that have the relationship_type
\* (when it is given), each once, in created_at descending order, the i-th
\* row at position skip + i of them.
C13_ListRelationshipsFilter ==
    [][\A w \in Workers :
          (/\ Stepped(w) /\ op'[w] = "list_relationships" /\ pc'[w] = "done"
           /\ arg'[w].skip >= 0 /\ arg'[w].limit >= 1 /\ arg'[w].limit <= 1000)
          => LET a == arg'[w]
                 r == resp'[w]
                 M == {id \in DOMAIN relationships :
                         /\ a.entity_id # NoEntity =>
                               \/ relationships[id].source_entity_id = a.entity_id
                               \/ relationships[id].target_entity_id = a.entity_id
                         /\ Truthy(a.relationship_type) =>
                               relationships[id].relationship_type
                                  = a.relationship_type}
                 Newer(t) ==
                    Cardinality({m \in M : relationships[m].created_at > t})
                 NotOlder(t) ==
                    Cardinality({m \in M : relationships[m].created_at >= t})
             IN /\ status'[w] = 200
                /\ Len(r) = WindowSize(Cardinality(M), a.skip, a.limit)
                /\ \A i \in DOMAIN r :
                      /\ r[i].id \in M
                      /\ Newer(r[i].created_at) <= a.skip + i - 1
                      /\ NotOlder(r[i].created_at) >= a.skip + i
                /\ \A i, j \in DOMAIN r : i < j => r[i].id # r[j].id
      ]_vars

(***************************************************************************)
(* The lookup system: entities and self-relationships are created and      *)
(* deleted while two workers get, update and delete records by id, stored  *)
(* or not.                                                                 *)
(***************************************************************************)
\* {"name": "Ram", "entity_type": "organization"}
RetypeBody ==
    EntityBody({"name", "entity_type"}, SomeStr(N_Ram), NullStr,
               "organization", NullStr, NullMeta)

NextLookup ==
    \E w \in Workers :
        \/ CreateEntity(w, PersonBody, MaxEntities)
        \/ RefreshEntity(w)
        \/ \E id \in EntityIds : GetEntity(w, id)
        \/ \E id \in EntityIds : SelectUpdateEntity(w, id, RetypeBody)
        \/ CommitUpdateEntity(w)
        \/ \E id \in EntityIds : SelectDeleteEntity(w, id)
        \/ CommitDeleteEntity(w)
        \/ SelectSourceEntity(w, EdgeBody(1, 1))
        \/ SelectTargetEntity(w)
        \/ CommitCreateRelationship(w)
        \/ RefreshRelationship(w)
        \/ \E id \in RelationshipIds : GetRelationship(w, id)
        \/ \E id \in RelationshipIds :
              SelectUpdateRelationship(w, id, DescribeBody)
        \/ CommitUpdateRelationship(w)
        \/ \E id \in RelationshipIds : SelectDeleteRelationship(w, id)
        \/ CommitDeleteRelationship(w)

SpecLookup == Init /\ [][NextLookup]_vars

\* C14: a get, update (with a valid body) or delete of an entity, or of a
\* relationship, whose id is not stored when the handler looks it up is
\* answered 404 with a detail naming the kind of record and the id, and
\* leaves both tables as they were.
C14_MissingIdNotFound ==
    [][\A w \in Workers :
          (Stepped(w) /\ Free(w)) =>
             /\ (/\ op'[w] \in {"get_entity", "update_entity", "delete_entity"}
                 /\ arg'[w].id \notin DOMAIN entities
                 /\ op'[w] = "update_entity" => EntityUpdateValid(arg'[w].body))
                => /\ pc'[w] = "done" /\ status'[w] = 404
                   /\ detail'[w] = [kind |-> "Entity", id |-> arg'[w].id]
                   /\ TablesUnchanged
             /\ (/\ op'[w] \in {"get_relationship", "update_relationship",
                                "delete_relationship"}
                 /\ arg'[w].id \notin DOMAIN relationships
                 /\ op'[w] = "update_relationship"
                       => RelationshipUpdateValid(arg'[w].body))
                => /\ pc'[w] = "done" /\ status'[w] = 404
                   /\ detail'[w] = [kind |-> "Relationship", id |-> arg'[w].id]
                   /\ TablesUnchanged
      ]_vars

\* C14 witness: with an entity stored, a delete_relationship of a
\* relationship that was deleted before and an update_entity of an id never
\* stored were both answered 404.
C14_Witness ==
    \E w, v \in Workers :
        /\ op[w] = "delete_relationship" /\ pc[w] = "done" /\ status[w] = 404
        /\ detail[w] = [kind |-> "Relationship", id |-> 1]
        /\ relSeq >= 1 /\ 1 \notin DOMAIN relationships
        /\ op[v] = "update_entity" /\ pc[v] = "done" /\ status[v] = 404
        /\ detail[v] = [kind |-> "Entity", id |-> 2]
        /\ entitySeq = 1 /\ DOMAIN entities = {1}

(***************************************************************************)
(* The round-trip system: entities are created from bodies with and        *)
(* without markup and read back by id; nothing is updated or deleted.      *)
(***************************************************************************)
\* "Hello & Hello": text with no markup in it.
D_Amp == Str(<<"Hello", " ", "&", " ", "Hello">>, 0)

RoundTripBodies ==
    {PersonBody, GovBody,
     EntityBody({"name", "entity_type", "description"}, SomeStr(N_Ram),
                NullStr, "person", SomeStr(D_Amp), NullMeta),
     EntityBody({"name", "entity_type", "description", "metadata"},
                SomeStr(N_Ram), NullStr, "other", SomeStr(D_Script), M_Mixed)}

NextRoundTrip ==
    \E w \in Workers :
        \/ \E b \in RoundTripBodies : CreateEntity(w, b, MaxEntities)
        \/ RefreshEntity(w)
        \/ \E id \in EntityIds : GetEntity(w, id)

SpecRoundTrip == Init /\ [][NextRoundTrip]_vars

\* C15 (as claimed): a get_entity of the id that a create_entity returned
\* answers with the name, name_nepali, entity_type, description and
\* metadata of the create's input (the defaults for fields it left out).
C15_CreateGetRoundTrip ==
    [][\A w, v \in Workers :
          (/\ Stepped(v) /\ op'[v] = "get_entity" /\ status'[v] = 200
           /\ op[w] = "create_entity" /\ pc[w] = "done" /\ status[w] = 201
           /\ arg'[v].id = arg[w].id)
          => LET b == arg[w].body
                 r == resp'[v][1]
             IN /\ r.id = arg[w].id
                /\ r.name = b.name
                /\ r.entity_type = b.entity_type
                /\ r.name_nepali =
                      (IF "name_nepali" \in b.set THEN b.name_nepali ELSE NullStr)
                /\ r.description =
                      (IF "description" \in b.set THEN b.description ELSE NullStr)
                /\ r.metadata =
                      (IF "metadata" \in b.set THEN b.metadata ELSE EmptyMeta)
      ]_vars

\* C16 (as claimed): the commit of a create_relationship whose source and
\* target are the same stored entity adds one relationship and nothing
\* else, and a list_relationships filtered by that entity returns every
\* such relationship exactly once.
C16_SelfLoopOnce ==
    [][\A w \in Workers :
          /\ (/\ Stepped(w)
              /\ op[w] = "create_relationship" /\ pc[w] = "commit"
              /\ arg[w].body.source_entity_id = arg[w].body.target_entity_id
              /\ arg[w].body.source_entity_id \in DOMAIN entities)
             => /\ pc'[w] = "refresh"
                /\ entities' = entities
                /\ \E id \in DOMAIN relationships' \ DOMAIN relationships :
                      /\ DOMAIN relationships' = DOMAIN relationships \cup {id}
                      /\ relationships'[id].source_entity_id
                            = arg[w].body.source_entity_id
                      /\ relationships'[id].target_entity_id
                            = arg[w].body.source_entity_id
                /\ \A id \in DOMAIN relationships :
                      relationships'[id] = relationships[id]
          /\ (/\ Stepped(w)
              /\ op'[w] = "list_relationships" /\ pc'[w] = "done"
              /\ arg'[w].skip = 0 /\ arg'[w].limit = 1000
              /\ arg'[w].entity_id # NoEntity)
             => \A id \in DOMAIN relationships :
                   (/\ relationships[id].source_entity_id = arg'[w].entity_id
                    /\ relationships[id].target_entity_id = arg'[w].entity_id)
                   => Cardinality({i \in DOMAIN resp'[w] :
                                      resp'[w][i].id = id}) = 1
      ]_vars

\* C17: a create_relationship whose source is not stored is answered 404
\* naming the source id, whether or not the target is stored; a 404 that
\* names the target id (different from the source id) comes from the check
\* of the target, which is reached only after the source was found, and
\* the target is then not stored; every 404 names one of the two ids.
C17_MissingEndpointNamed ==
    [][\A w \in Workers :
          (/\ Stepped(w) /\ op'[w] = "create_relationship"
           /\ RelationshipCreateValid(arg'[w].body))
          => LET src == arg'[w].body.source_entity_id
                 tgt == arg'[w].body.target_entity_id
             IN /\ (Free(w) /\ src \notin DOMAIN entities)
                   => /\ status'[w] = 404
                      /\ detail'[w] = [kind |-> "Entity", id |-> src]
                /\ (status'[w] = 404 /\ pc[w] = "target")
                   => /\ tgt \notin DOMAIN entities
                      /\ detail'[w] = [kind |-> "Entity", id |-> tgt]
                /\ (status'[w] = 404 /\ detail'[w].id # src)
                   => pc[w] = "target"
                /\ status'[w] = 404 => detail'[w].id \in {src, tgt}
      ]_vars

\* C17 witness: one create_relationship, made when neither endpoint was
\* stored (its target never was), was answered 404 naming its source;
\* another with its source stored and its target not was answered 404
\* naming its target.
C17_Witness ==
    \E w, v \in Workers :
        /\ op[w] = "create_relationship" /\ pc[w] = "done" /\ status[w] = 404
        /\ arg[w].body.source_entity_id # arg[w].body.target_entity_id
        /\ entitySeq < arg[w].body.target_entity_id
        /\ detail[w].id = arg[w].body.source_entity_id
        /\ op[v] = "create_relationship" /\ pc[v] = "done" /\ status[v] = 404
        /\ arg[v].body.source_entity_id \in DOMAIN entities
        /\ detail[v].id = arg[v].body.target_entity_id
        /\ detail[v].id # arg[v].body.source_entity_id

\* C18: the commit of delete_relationship takes the relationship with the
\* given id out of the table and changes no other relationship and no
\* entity.
C18_DeleteRelationshipFrame ==
    [][\A w \in Workers :
          (/\ Stepped(w) /\ op[w] = "delete_relationship" /\ pc[w] = "commit"
           /\ status'[w] = 204)
          => /\ entities' = entities
             /\ DOMAIN relationships' = DOMAIN relationships \ {arg[w].id}
             /\ \A id \in DOMAIN relationships' :
                   relationships'[id] = relationships[id]
      ]_vars

\* C18 witness: a delete_relationship of one of two stored relationships
\* was answered 204; the other relationship and both entities are stored.
C18_Witness ==
    \E w \in Workers :
        /\ op[w] = "delete_relationship" /\ pc[w] = "done" /\ status[w] = 204
        /\ relSeq = 2
        /\ Cardinality(DOMAIN relationships) = 1
        /\ arg[w].id \notin DOMAIN relationships
        /\ DOMAIN entities = {1, 2}

(***************************************************************************)
(* The validation system: one entity is created and updated by two workers *)
(* with bodies on both sides of every constraint of the required fields.   *)
(***************************************************************************)
\* Names of 255 and of 256 characters.
N_Longest == Str(<<"R">>, NameMaxLen - 1)
N_TooLong == Str(<<"R">>, NameMaxLen)

NameBody(set, name, entity_type) ==
    EntityBody(set, name, NullStr, entity_type, NullStr, NullMeta)

ValidateCreateBodies ==
    {PersonBody,
     NameBody({"name", "entity_type"}, SomeStr(N_Longest), "other"),
     NameBody({"name", "entity_type"}, SomeStr(EmptyStr), "person"),
     NameBody({"name", "entity_type"}, SomeStr(N_TooLong), "person"),
     NameBody({"name", "entity_type"}, SomeStr(N_Ram), "company"),
     NameBody({"name", "entity_type"}, NullStr, "person"),
     NameBody({"name"}, SomeStr(N_Ram), NullType)}

ValidateUpdateBodies ==
    {RetypeBody,
     NameBody({"name"}, SomeStr(N_Longest), NullType),
     NameBody({"name"}, SomeStr(EmptyStr), NullType),
     NameBody({"name"}, SomeStr(N_TooLong), NullType),
     NameBody({"entity_type"}, NullStr, "company"),
     NameBody({"name"}, NullStr, NullType),
     NameBody({"entity_type"}, NullStr, NullType)}

NextValidate ==
    \E w \in Workers :
        \/ \E b \in ValidateCreateBodies : CreateEntity(w, b, MaxLive)
        \/ RefreshEntity(w)
        \/ \E id \in 1 .. MaxLive, b \in ValidateUpdateBodies :
              SelectUpdateEntity(w, id, b)
        \/ CommitUpdateEntity(w)

SpecValidate == Init /\ [][NextValidate]_vars

\* A body whose name is empty or whose entity_type is not of the enumeration.
Malformed(b) ==
    \/ "name" \in b.set /\ b.name.some /\ StrLen(b.name.v) = 0
    \/ /\ "entity_type" \in b.set
       /\ b.entity_type \notin {"person", "organization", "government",
                                "political_party", "other", NullType}

\* C19: every stored entity has an entity_type of the enumeration and a
\* name of 1 to 255 characters, and a create_entity with an empty name or
\* an unknown entity_type is answered 422 and stores nothing.
C19_RequiredFieldsValid ==
    /\ [](\A id \in DOMAIN entities :
            /\ entities[id].entity_type \in
                  {"person", "organization", "government", "political_party",
                   "other"}
            /\ entities[id].name.some
            /\ StrLen(entities[id].name.v) >= 1
            /\ StrLen(entities[id].name.v) <= 255)
    /\ [][\A w \in Workers :
             (/\ Stepped(w) /\ Free(w) /\ op'[w] = "create_entity"
              /\ Malformed(arg'[w].body))
             => /\ pc'[w] = "done" /\ status'[w] = 422
                /\ TablesUnchanged /\ entitySeq' = entitySeq
         ]_vars

\* C19 witness: an entity with a name of 255 characters is stored, one
\* worker's update with a null name was refused and the other's
\* create_entity with an unknown entity_type was answered 422.
C19_Witness ==
    \E w, v \in Workers :
        /\ DOMAIN entities = {1}
        /\ StrLen(entities[1].name.v) = 255
        /\ op[w] = "update_entity" /\ pc[w] = "done" /\ status[w] = 500
        /\ arg[w].body.set = {"name"} /\ ~arg[w].body.name.some
        /\ op[v] = "create_entity" /\ pc[v] = "done" /\ status[v] = 422
        /\ arg[v].body.entity_type = "company"

\* C20 (as claimed): an update_entity of a stored entity whose input has an
\* empty or over-long name, a null name, a null entity_type or an
\* entity_type outside the enumeration is answered 422 at once, and both
\* tables are unchanged.
C20_UpdateRejectsInvalid ==
    [][\A w \in Workers :
          (/\ Stepped(w) /\ Free(w) /\ op'[w] = "update_entity"
           /\ arg'[w].id \in DOMAIN entities
           /\ LET b == arg'[w].body IN
                 \/ Malformed(b)
                 \/ "name" \in b.set /\ b.name.some /\ StrLen(b.name.v) > 255
                 \/ "name" \in b.set /\ ~b.name.some
                 \/ "entity_type" \in b.set /\ b.entity_type = NullType)
          => /\ pc'[w] = "done" /\ status'[w] = 422
             /\ TablesUnchanged
      ]_vars

(***************************************************************************)
(* The version system: one entity is created, updated and deleted by two   *)
(* workers with bodies that carry a "version" key and bodies that do not.  *)
(***************************************************************************)
V_Two == "2.0"
V_Three == "3.0"

\* Body b with the key "version": v added to it.
WithVersion(b, v) ==
    [set |-> b.set \cup {"version"}, name |-> b.name,
     name_nepali |-> b.name_nepali, entity_type |-> b.entity_type,
     description |-> b.description, metadata |-> b.metadata, version |-> v]

VersionCreateBodies == {PersonBody, WithVersion(PersonBody, V_Two)}

VersionUpdateBodies ==
    {RetypeBody,
     WithVersion(EntityBody({}, NullStr, NullStr, NullType, NullStr, NullMeta),
                 V_Three),
     WithVersion(EntityBody({"name"}, SomeStr(N_Gov), NullStr, NullType,
                            NullStr, NullMeta), V_Three)}

NextVersion ==
    \E w \in Workers :
        \/ \E b \in VersionCreateBodies : CreateEntity(w, b, MaxLive)
        \/ RefreshEntity(w)
        \/ \E id \in 1 .. MaxLive : GetEntity(w, id)
        \/ \E id \in 1 .. MaxLive, b \in VersionUpdateBodies :
              SelectUpdateEntity(w, id, b)
        \/ CommitUpdateEntity(w)
        \/ \E id \in 1 .. MaxLive : SelectDeleteEntity(w, id)
        \/ CommitDeleteEntity(w)

SpecVersion == Init /\ [][NextVersion]_vars

\* Worker w's step stored its create_entity or its update_entity.
Stored(w) ==
    /\ Stepped(w) /\ pc'[w] = "refresh"
    /\ op'[w] \in {"create_entity", "update_entity"}

\* C21 (as claimed): the create_entity or update_entity that supplies a
\* version stores that version, a create_entity that supplies none stores
\* "1.0", and no other step changes the version of an entity.
C21_VersionCallerSettable ==
    [][/\ \A w \in Workers :
             Stored(w) =>
                LET b == arg'[w].body
                    id == arg'[w].id
                IN /\ id \in DOMAIN entities'
                   /\ "version" \in b.set => entities'[id].version = b.version
                   /\ ("version" \notin b.set /\ op'[w] = "create_entity")
                         => entities'[id].version = "1.0"
       /\ \A id \in DOMAIN entities \cap DOMAIN entities' :
             entities'[id].version # entities[id].version
                => \E w \in Workers :
                      /\ Stored(w) /\ arg'[w].id = id
                      /\ "version" \in arg'[w].body.set
      ]_vars

(***************************************************************************)
(* The failing store: the storage step of a handler (the flush and COMMIT  *)
(* of db.commit()) raises, for a reason of the store's own (connection     *)
(* lost, disk full, deadlock).  Every handler catches it in "except        *)
(* Exception": db.rollback() and DatabaseError, 500.                       *)
(***************************************************************************)
\* create_entity, lines 49 and 53-56: db.commit() raises.
CreateEntityFails(w, b) ==
    /\ Free(w)
    /\ EntityCreateValid(b)
    /\ Answer(w, "create_entity", [id |-> 0, body |-> b], 500, <<>>)
    /\ UNCHANGED <<db, clock>>

\* (mutant) a failed commit of a delete whose DELETE is not rolled back.
CommitFails_applied(w) ==
    /\ pc[w] = "commit"
    /\ entities' = IF op[w] = "delete_entity"
                   THEN Remove(entities, arg[w].id) ELSE entities
    /\ relationships' = IF op[w] = "delete_relationship"
                        THEN Remove(relationships, arg[w].id)
                        ELSE relationships
    /\ Answer(w, op[w], arg[w], 500, <<>>)
    /\ UNCHANGED <<entitySeq, relSeq, clock>>

\* update_entity, delete_entity, create_relationship, update_relationship,
\* delete_relationship: db.commit() raises, the handler rolls back and
\* raises DatabaseError.
CommitFails(w) ==
    /\ pc[w] = "commit"
    /\ Answer(w, op[w], arg[w], 500, <<>>)
    /\ UNCHANGED <<db, clock>>

NextFail ==
    \E w \in Workers :
        \/ CreateEntity(w, PersonBody, MaxEntities)
        \/ CreateEntityFails(w, PersonBody)
        \/ RefreshEntity(w)
        \/ \E id \in EntityIds : SelectUpdateEntity(w, id, RetypeBody)
        \/ CommitUpdateEntity(w)
        \/ \E id \in EntityIds : SelectDeleteEntity(w, id)
        \/ CommitDeleteEntity(w)
        \/ SelectSourceEntity(w, EdgeBody(1, 1))
        \/ SelectTargetEntity(w)
        \/ CommitCreateRelationship(w)
        \/ RefreshRelationship(w)
        \/ \E id \in RelationshipIds :
              SelectUpdateRelationship(w, id, DescribeBody)
        \/ CommitUpdateRelationship(w)
        \/ \E id \in RelationshipIds : SelectDeleteRelationship(w, id)
        \/ CommitDeleteRelationship(w)
        \/ CommitFails(w)

SpecFail == Init /\ [][NextFail]_vars

\* Worker w's step is the storage step of its request.
StorageStep(w) ==
    /\ Stepped(w)
    /\ \/ pc[w] = "commit"
       \/ /\ Free(w) /\ op'[w] = "create_entity"
          /\ EntityCreateValid(arg'[w].body)

\* C22: a storage step of create_entity, update_entity, delete_entity,
\* create_relationship, update_relationship or delete_relationship that
\* does not succeed ends the request with 500 and no body and leaves both
\* tables as they were; a request never comes back to its storage step
\* (after it, it only refreshes and returns).
C22_StorageFailureRollsBack ==
    [][\A w \in Workers :
          /\ (/\ StorageStep(w)
              /\ ~(pc'[w] = "refresh" \/ (pc'[w] = "done" /\ status'[w] = 204)))
             => /\ pc'[w] = "done" /\ status'[w] = 500 /\ resp'[w] = <<>>
                /\ TablesUnchanged
          /\ StorageStep(w) => pc'[w] \in {"refresh", "done"}
          /\ (Stepped(w) /\ pc[w] = "refresh") => pc'[w] = "done"
      ]_vars

\* C22 witness: with a relationship stored, a delete_entity of its endpoint
\* and a delete_relationship of it both failed at the commit and were
\* answered 500; the entity and the relationship are still stored.
C22_Witness ==
    \E w, v \in Workers :
        /\ op[w] = "delete_entity" /\ pc[w] = "done" /\ status[w] = 500
        /\ op[v] = "delete_relationship" /\ pc[v] = "done" /\ status[v] = 500
        /\ arg[w].id \in DOMAIN entities
        /\ arg[v].id \in DOMAIN relationships
        /\ relationships[arg[v].id].source_entity_id = arg[w].id

(***************************************************************************)
(* The race system: one entity is created and then updated by two workers  *)
(* at once, with bodies that supply the same field and bodies that supply  *)
(* different fields; nothing is deleted.                                   *)
(***************************************************************************)
RaceUpdateBodies ==
    {EntityBody({"name"}, SomeStr(N_Ram), NullStr, NullType, NullStr, NullMeta),
     EntityBody({"name"}, SomeStr(N_Gov), NullStr, NullType, NullStr, NullMeta),
     EntityBody({"description"}, NullStr, NullStr, NullType, SomeStr(D_Since),
                NullMeta)}

NextRace ==
    \/ Tick
    \/ \E w \in Workers :
        \/ CreateEntity(w, PersonBody, MaxLive)
        \/ RefreshEntity(w)
        \/ \E id \in 1 .. MaxLive, b \in RaceUpdateBodies :
              SelectUpdateEntity(w, id, b)
        \/ CommitUpdateEntity(w)

SpecRace == Init /\ [][NextRace]_vars

\* C23 (as claimed): the commit of an update_entity of a stored entity is
\* never refused, whatever the other worker's update did in between, and
\* leaves every field the update supplied with the value it supplied (it is
\* then the last update committed) and every other field as it was; the
\* update is then answered 200.
C23_LastWriterWins ==
    [][\A w \in Workers :
          /\ (/\ Stepped(w) /\ op[w] = "update_entity" /\ pc[w] = "commit"
              /\ arg[w].id \in DOMAIN entities)
             => LET id == arg[w].id
                    b == arg[w].body
                IN /\ pc'[w] = "refresh"
                   /\ id \in DOMAIN entities'
                   /\ \A c \in Columns :
                         ColumnValue(entities'[id], c) =
                            (IF c \in UpdateColumns(b) THEN UpdateValue(b, c)
                             ELSE ColumnValue(entities[id], c))
          /\ (/\ Stepped(w) /\ op[w] = "update_entity" /\ pc[w] = "refresh"
              /\ arg[w].id \in DOMAIN entities)
             => status'[w] = 200
      ]_vars

(***************************************************************************)
(* Properties of the lookup system: the life of a record.                  *)
(***************************************************************************)
\* C24: the ids stored are ids that were generated; an id that was
\* generated and is not stored (its record was deleted, directly or by
\* cascade) is not stored after any step, whichever request takes it, an
\* update that loaded the record before the delete included; and a get,
\* update or delete that looks such an id up is answered 404.
C24_DeletedStaysDeleted ==
    /\ [](/\ DOMAIN entities \subseteq 1 .. entitySeq
          /\ DOMAIN relationships \subseteq 1 .. relSeq)
    /\ [][/\ \A id \in (1 .. entitySeq) \ DOMAIN entities :
                id \notin DOMAIN entities'
          /\ \A id \in (1 .. relSeq) \ DOMAIN relationships :
                id \notin DOMAIN relationships'
          /\ \A w \in Workers :
                (Stepped(w) /\ Free(w)) =>
                   /\ (/\ op'[w] \in {"get_entity", "update_entity",
                                      "delete_entity"}
                       /\ arg'[w].id \in (1 .. entitySeq) \ DOMAIN entities)
                      => pc'[w] = "done" /\ status'[w] = 404
                   /\ (/\ op'[w] \in {"get_relationship", "update_relationship",
                                      "delete_relationship"}
                       /\ arg'[w].id \in (1 .. relSeq) \ DOMAIN relationships)
                      => pc'[w] = "done" /\ status'[w] = 404
         ]_vars

\* C24 witness: an update_entity that loaded the entity before the other
\* worker's delete_entity committed went on to its commit and was refused;
\* the entity, and the relationship that went with it, are not stored.
C24_Witness ==
    \E w, v \in Workers :
        /\ op[w] = "update_entity" /\ pc[w] = "done" /\ status[w] = 500
        /\ op[v] = "delete_entity" /\ pc[v] = "done" /\ status[v] = 204
        /\ arg[w].id = arg[v].id
        /\ arg[w].id \notin DOMAIN entities
        /\ relSeq >= 1 /\ DOMAIN relationships = {}

(***************************************************************************)
(* The tie system: two entities are created, at the same time of the       *)
(* database's clock or at different times, and once both are stored the    *)
(* two workers list them, whole and page by page; the store is not changed *)
(* while they list.                                                        *)
(***************************************************************************)
NextTies ==
    \/ Tick
    \/ \E w \in Workers :
        \/ CreateEntity(w, PersonBody, MaxEntities)
        \/ RefreshEntity(w)
        \/ /\ entitySeq = MaxEntities
           /\ \E skip \in {0, 1}, limit \in {1, LimitMax} :
                 ListEntities(w, skip, limit, NoType, NoSearch)

SpecTies == Init /\ [][NextTies]_vars

\* The ids of the rows of a response.
Ids(r) == {r[i].id : i \in DOMAIN r}

\* C25 (as claimed): of two list_entities answered on the same store, two
\* with the same parameters returned the same sequence, and the pages
\* skip = 0 and skip = 1 of limit = 1 have no entity in common and hold,
\* together, every one of the two entities.
C25_ListDeterministic ==
    \A w, v \in Workers :
        (/\ op[w] = "list_entities" /\ pc[w] = "done" /\ status[w] = 200
         /\ op[v] = "list_entities" /\ pc[v] = "done" /\ status[v] = 200)
        => /\ arg[w] = arg[v] => resp[w] = resp[v]
           /\ (/\ arg[w].limit = 1 /\ arg[v].limit = 1
               /\ arg[w].skip = 0 /\ arg[v].skip = 1)
              => /\ Ids(resp[w]) \cap Ids(resp[v]) = {}
                 /\ Ids(resp[w]) \cup Ids(resp[v]) = DOMAIN entities

(***************************************************************************)
(* The long-description system: one entity is created and updated with     *)
(* descriptions of 5000 and of 5001 characters, with and without a         *)
(* character that the sanitizer escapes.                                   *)
(***************************************************************************)
\* 5000 plain characters; "&" and 4999 plain characters; 5001 plain ones.
D_Longest == Str(<<>>, DescriptionMaxLen)
D_AmpLongest == Str(<<"&">>, DescriptionMaxLen - 1)
D_TooLong == Str(<<>>, DescriptionMaxLen + 1)

DescriptionBody(set, description) ==
    EntityBody(set, SomeStr(N_Ram), NullStr, "person", description, NullMeta)

LongCreateBodies ==
    {DescriptionBody({"name", "entity_type", "description"}, SomeStr(d)) :
        d \in {D_Longest, D_AmpLongest, D_TooLong}}

LongUpdateBodies ==
    {DescriptionBody({"description"}, SomeStr(d)) :
        d \in {D_Since, D_AmpLongest, D_TooLong}}
       \cup {DescriptionBody({"description"}, NullStr)}

NextLong ==
    \E w \in Workers :
        \/ \E b \in LongCreateBodies : CreateEntity(w, b, MaxLive)
        \/ RefreshEntity(w)
        \/ \E id \in 1 .. MaxLive : GetEntity(w, id)
        \/ \E id \in 1 .. MaxLive, b \in LongUpdateBodies :
              SelectUpdateEntity(w, id, b)
        \/ CommitUpdateEntity(w)

SpecLong == Init /\ [][NextLong]_vars

\* C26 (as claimed): the description of every stored entity is null or has
\* at most 5000 characters.
C26_DescriptionBounded ==
    \A id \in DOMAIN entities :
        entities[id].description.some
           => StrLen(entities[id].description.v) <= 5000

(***************************************************************************)
(* The relationship-data system: self-relationships of one entity are      *)
(* created, updated by two workers at once, read and listed, with bodies   *)
(* that carry markup in the description, metadata, and a key that          *)
(* RelationshipUpdate does not declare.                                    *)
(***************************************************************************)
\* {"source_entity_id": 1, "target_entity_id": 1, "relationship_type":
\*  "works_for", "description": "<script>alert(1)</script>Hello",
\*  "metadata": {...}}
RichEdgeBody ==
    RelationshipBody({"source_entity_id", "target_entity_id",
                      "relationship_type", "description", "metadata"},
                     1, 1, SomeStr(T_WorksFor), SomeStr(D_Script), M_Mixed)

RelationshipUpdateBodies ==
    {\* {"description": "<b>Hello&</b>", "metadata": {}}
     RelationshipBody({"description", "metadata"}, 0, 0, NullStr,
                      SomeStr(S_Bold), EmptyMeta),
     \* {"description": "<script>alert(1)</script>Hello", "metadata": {}}
     RelationshipBody({"description", "metadata"}, 0, 0, NullStr,
                      SomeStr(D_Script), EmptyMeta),
     \* {"relationship_type": "member_of", "source_entity_id": 2}
     RelationshipBody({"relationship_type", "source_entity_id"}, 2, 0,
                      SomeStr(T_MemberOf), NullStr, NullMeta),
     \* {"metadata": {...}}
     RelationshipBody({"metadata"}, 0, 0, NullStr, NullStr, M_Mixed)}

NextRelData ==
    \E w \in Workers :
        \/ CreateEntity(w, PersonBody, MaxLive)
        \/ RefreshEntity(w)
        \/ \E b \in {EdgeBody(1, 1), RichEdgeBody} : SelectSourceEntity(w, b)
        \/ SelectTargetEntity(w)
        \/ CommitCreateRelationship(w)
        \/ RefreshRelationship(w)
        \/ \E id \in RelationshipIds : GetRelationship(w, id)
        \/ ListRelationships(w, 0, LimitMax, NoEntity, NullStr)
        \/ \E id \in RelationshipIds, b \in RelationshipUpdateBodies :
              SelectUpdateRelationship(w, id, b)
        \/ CommitUpdateRelationship(w)

SpecRelData == Init /\ [][NextRelData]_vars

\* Worker w's step is the commit of its create_relationship (o =
\* "create_relationship") or update_relationship, and it succeeded.
RelationshipCommitted(w, o) ==
    /\ op[w] = o /\ pc[w] = "commit"
    /\ Stepped(w) /\ pc'[w] = "refresh"

\* C27 (as claimed): the commit of a create_relationship leaves the
\* relationship stored with the description of the input (null when it has
\* none), and the commit of an update_relationship that supplies a
\* description leaves it stored with that description, as it was supplied.
C27_DescriptionVerbatim ==
    [][\A w \in Workers :
          /\ RelationshipCommitted(w, "create_relationship")
             => relationships'[arg'[w].id].description =
                   (IF "description" \in arg[w].body.set
                    THEN arg[w].body.description ELSE NullStr)
          /\ (/\ RelationshipCommitted(w, "update_relationship")
              /\ "description" \in arg[w].body.set)
             => relationships'[arg[w].id].description = arg[w].body.description
      ]_vars

\* C28 (as claimed): the commit of a create_relationship stores the
\* metadata of the input (the empty mapping when it has none), the commit
\* of an update_relationship that supplies metadata stores that metadata,
\* and a get_relationship or list_relationships of stored relationships is
\* answered 200 with the metadata stored for each.
C28_MetadataPersisted ==
    [][\A w \in Workers :
          /\ RelationshipCommitted(w, "create_relationship")
             => relationships'[arg'[w].id].meta_data =
                   (IF "metadata" \in arg[w].body.set
                    THEN arg[w].body.metadata ELSE EmptyMeta)
          /\ (/\ RelationshipCommitted(w, "update_relationship")
              /\ "metadata" \in arg[w].body.set)
             => relationships'[arg[w].id].meta_data = arg[w].body.metadata
          /\ (/\ Stepped(w) /\ Free(w) /\ op'[w] = "get_relationship"
              /\ arg'[w].id \in DOMAIN relationships)
             => /\ status'[w] = 200
                /\ resp'[w][1].metadata = relationships[arg'[w].id].meta_data
          /\ (Stepped(w) /\ Free(w) /\ op'[w] = "list_relationships")
             => /\ status'[w] = 200
                /\ \A i \in DOMAIN resp'[w] :
                      resp'[w][i].metadata =
                         relationships[resp'[w][i].id].meta_data
      ]_vars

\* C29: no step of an update_relationship changes an entity, another
\* relationship or the set of relationships stored; the relationship it
\* names keeps its id, source_entity_id, target_entity_id and created_at,
\* and its relationship_type, description and metadata change only when
\* the input supplies them, type and description to the value supplied.
C29_UpdateRelationshipFrame ==
    [][\A w \in Workers :
          (Stepped(w) /\ op'[w] = "update_relationship")
          => LET id == arg'[w].id
                 b == arg'[w].body
             IN /\ entities' = entities
                /\ DOMAIN relationships' = DOMAIN relationships
                /\ \A r \in DOMAIN relationships \ {id} :
                      relationships'[r] = relationships[r]
                /\ id \in DOMAIN relationships =>
                      LET old == relationships[id]
                          new == relationships'[id]
                      IN /\ new.id = old.id
                         /\ new.source_entity_id = old.source_entity_id
                         /\ new.target_entity_id = old.target_entity_id
                         /\ new.created_at = old.created_at
                         /\ new.relationship_type # old.relationship_type
                               => /\ "relationship_type" \in b.set
                                  /\ new.relationship_type = b.relationship_type
                         /\ new.description # old.description
                               => /\ "description" \in b.set
                                  /\ new.description = b.description
                         /\ new.meta_data # old.meta_data
                               => "metadata" \in b.set
      ]_vars

\* C29 witness: of two stored relationships, one was given the type
\* member_of by an update_relationship whose body also carried a
\* source_entity_id; its endpoints are those it was created with and the
\* other relationship has the type it was created with.
C29_Witness ==
    \E w \in Workers :
        /\ op[w] = "update_relationship" /\ pc[w] = "refresh"
        /\ "source_entity_id" \in arg[w].body.set
        /\ DOMAIN relationships = {1, 2}
        /\ LET row == relationships[arg[w].id] IN
              /\ row.relationship_type = SomeStr(T_MemberOf)
              /\ row.source_entity_id = 1
              /\ row.source_entity_id # arg[w].body.source_entity_id
              /\ row.updated_at # NullTime
        /\ \E r \in DOMAIN relationships :
              /\ r # arg[w].id
              /\ relationships[r].relationship_type = SomeStr(T_WorksFor)

(***************************************************************************)
(* database/import_entities.py: fetch_all_entities pages through the       *)
(* remote API.  The remote answers a page request with a list of any       *)
(* length (fetch_entities_from_api returns [] for an HTTP error or an      *)
(* unexpected format); only the lengths matter to the loop.  A step is the *)
(* code between two awaits.                                                *)
(***************************************************************************)
\* limit = 100
PageLimit == 100

\* The largest max_entities the model calls fetch_all_entities with.
MaxFetch == 350

\* max_entities of the calls, and the lengths of the pages the remote sends.
FetchLimits == {0, 1, PageLimit, PageLimit + 1, MaxFetch}
PageLengths == {0, 1, PageLimit - 1, PageLimit, PageLimit + 1, 2 * PageLimit}

\* (mutant) a return without the slice.
Slice_all(n, max_entities) == n

\* len(all_entities[:max_entities]) for a list of n items.
Slice(n, max_entities) == IF n < max_entities THEN n ELSE max_entities

\* fetch_all_entities(max_entities=m) is called: lines 190-192.
FetchAllEntities(m) ==
    /\ fetch.pc \in {"idle", "returned"}
    /\ fetch' = [NoFetch EXCEPT !.pc = "while", !.max_entities = m]
    /\ UNCHANGED <<db, clock, op, pc, arg, loaded, status, resp, detail>>

\* lines 194-200: the loop condition holds and the page at offset is
\* requested.
FetchRequest ==
    /\ fetch.pc = "while"
    /\ fetch.all_entities < fetch.max_entities
    /\ fetch' = [fetch EXCEPT !.pc = "request", !.requests = @ + 1]
    /\ UNCHANGED <<db, clock, op, pc, arg, loaded, status, resp, detail>>

\* lines 194 and 216: the loop condition fails and the call returns.
FetchReturn ==
    /\ fetch.pc = "while"
    /\ ~(fetch.all_entities < fetch.max_entities)
    /\ fetch' = [fetch EXCEPT
                   !.pc = "returned",
                   !.returned = Slice(fetch.all_entities, fetch.max_entities)]
    /\ UNCHANGED <<db, clock, op, pc, arg, loaded, status, resp, detail>>

\* lines 202-214 (and 216 after a break): the request returns a page of k
\* entities.
FetchPage(k) ==
    /\ fetch.pc = "request"
    /\ LET all == fetch.all_entities + k IN
       fetch' = IF k = 0 \/ k < PageLimit
                THEN [fetch EXCEPT !.pc = "returned", !.page = k,
                                   !.all_entities = all,
                                   !.returned = Slice(all, fetch.max_entities)]
                ELSE [fetch EXCEPT !.pc = "while", !.page = k,
                                   !.all_entities = all,
                                   !.offset = @ + PageLimit]
    /\ UNCHANGED <<db, clock, op, pc, arg, loaded, status, resp, detail>>

\* A step of the running call.
FetchStep == FetchRequest \/ FetchReturn \/ \E k \in PageLengths : FetchPage(k)

NextFetch ==
    \/ \E m \in FetchLimits : FetchAllEntities(m)
    \/ FetchRequest
    \/ FetchReturn
    \/ \E k \in PageLengths : FetchPage(k)

\* The call, once made, keeps running: every page request returns.
SpecFetch == Init /\ [][NextFetch]_vars /\ WF_vars(FetchStep)

\* C30: a fetch_all_entities that was called returns; it requests a page
\* only while it holds fewer than max_entities items, the n-th request at
\* offset 100 * (n - 1); it returns at once on an empty page and on a page
\* of fewer than 100 entities; and it returns at most max_entities items.
C30_FetchAllTerminates ==
    /\ (fetch.pc \in {"while", "request"}) ~> (fetch.pc = "returned")
    /\ [](/\ fetch.pc = "request" =>
                /\ fetch.all_entities < fetch.max_entities
                /\ fetch.offset = 100 * (fetch.requests - 1)
          /\ fetch.pc = "returned" =>
                /\ fetch.returned <= fetch.max_entities
                /\ fetch.returned <= fetch.all_entities)
    /\ [][(fetch.pc = "request" /\ fetch' # fetch) =>
             /\ fetch'.page < 100 => fetch'.pc = "returned"
             /\ fetch'.page >= 100 =>
                   /\ fetch'.pc = "while"
                   /\ fetch'.offset = fetch.offset + 100
             /\ fetch'.requests = fetch.requests
         ]_vars

\* C30 witness: a call with max_entities = 101 made two requests, received
\* pages of 100 and of 101 entities, and returned 101 of the 201 collected.
C30_Witness ==
    /\ fetch.pc = "returned"
    /\ fetch.max_entities = 101 /\ fetch.returned = 101
    /\ fetch.requests = 2 /\ fetch.page = 101
    /\ fetch.all_entities = 201

====
